---------------------------- MODULE Spec2Model ----------------------------
(***************************************************************************)
(* Model of the analytics core of market_analysis (src/data_processor.py): *)
(* DataProcessor.compare_assets and DataProcessor.compare_stock_to_index   *)
(* applied to two price frames.                                            *)
(*                                                                         *)
(* Numbers.  A float64 is modelled as an extended rational                 *)
(*     [k |-> "fin", n |-> numerator, d |-> denominator > 0]  (reduced),   *)
(*     [k |-> "inf" | "ninf" | "nan", n |-> 0, d |-> 1].                   *)
(* Arithmetic on finite values is exact; division by zero, inf and nan     *)
(* follow numpy (IEEE 754 with warnings, no exception).  Closes are        *)
(* non-negative, so no negative zero is ever a divisor.  A standard        *)
(* deviation and a correlation are square roots of rationals and are kept  *)
(* as "surds" [k, s, r]: the value s * sqrt(r); round(x, 2) of a surd is   *)
(* computed exactly with integer comparisons.                              *)
(***************************************************************************)
EXTENDS Integers, Sequences, FiniteSets, TLC

(***************************************************************************)
(* Extended rationals                                                      *)
(***************************************************************************)
Abs(x) == IF x < 0 THEN -x ELSE x

RECURSIVE GCD(_, _)
GCD(a, b) == IF b = 0 THEN a ELSE GCD(b, a % b)

NaN == [k |-> "nan", n |-> 0, d |-> 1]
PosInf == [k |-> "inf", n |-> 0, d |-> 1]
NegInf == [k |-> "ninf", n |-> 0, d |-> 1]

\* The finite value n/d (d # 0), reduced to lowest terms with d > 0.
Fin(n, d) ==
    LET g == GCD(Abs(n), Abs(d))
        s == IF d < 0 THEN -1 ELSE 1
    IN  [k |-> "fin", n |-> s * (n \div g), d |-> s * (d \div g)]

Zero == Fin(0, 1)
One == Fin(1, 1)

IsFin(x) == x.k = "fin"
IsNaN(x) == x.k = "nan"
IsZero(x) == x.k = "fin" /\ x.n = 0

\* -1, 0, 1 for a value that is not nan.
Sign(x) ==
    CASE x.k = "inf" -> 1
      [] x.k = "ninf" -> -1
      [] OTHER -> IF x.n > 0 THEN 1 ELSE IF x.n < 0 THEN -1 ELSE 0

InfOfSign(s) == IF s > 0 THEN PosInf ELSE NegInf

FNeg(x) ==
    CASE x.k = "fin" -> Fin(-x.n, x.d)
      [] x.k = "inf" -> NegInf
      [] x.k = "ninf" -> PosInf
      [] OTHER -> NaN

FAdd(x, y) ==
    IF IsNaN(x) \/ IsNaN(y) THEN NaN
    ELSE IF IsFin(x) /\ IsFin(y)
         THEN LET g == GCD(x.d, y.d)
              IN  Fin(x.n * (y.d \div g) + y.n * (x.d \div g), (x.d \div g) * y.d)
    ELSE IF IsFin(x) THEN y
    ELSE IF IsFin(y) THEN x
    ELSE IF x.k = y.k THEN x ELSE NaN

FSub(x, y) == FAdd(x, FNeg(y))

FMul(x, y) ==
    IF IsNaN(x) \/ IsNaN(y) THEN NaN
    ELSE IF IsFin(x) /\ IsFin(y)
         THEN LET g1 == GCD(Abs(x.n), y.d)
                  g2 == GCD(Abs(y.n), x.d)
              IN  Fin((x.n \div g1) * (y.n \div g2), (x.d \div g2) * (y.d \div g1))
    ELSE IF Sign(x) * Sign(y) = 0 THEN NaN
    ELSE InfOfSign(Sign(x) * Sign(y))

\* numpy true division: x/0 is inf with the sign of x, 0/0 and inf/inf are nan.
FDiv(x, y) ==
    IF IsNaN(x) \/ IsNaN(y) THEN NaN
    ELSE IF IsFin(y)
         THEN IF y.n = 0
              THEN IF Sign(x) = 0 THEN NaN ELSE InfOfSign(Sign(x))
              ELSE IF IsFin(x)
                   THEN FMul(x, Fin(y.d, y.n))
                   ELSE InfOfSign(Sign(x) * Sign(y))
    ELSE IF IsFin(x) THEN Zero ELSE NaN

\* x > y as floats: false when either is nan.
FGt(x, y) ==
    IF IsNaN(x) \/ IsNaN(y) THEN FALSE
    ELSE IF IsFin(x) /\ IsFin(y) THEN x.n * y.d > y.n * x.d
    ELSE IF x.k = y.k THEN FALSE
    ELSE x.k = "inf" \/ y.k = "ninf"


(***************************************************************************)
(* Square roots: a surd [k |-> "fin", s |-> sign, r |-> rational >= 0] is  *)
(* the value s * sqrt(r); [k |-> "nan"] is nan.                            *)
(***************************************************************************)
SurdNaN == [k |-> "nan", s |-> 0, r |-> Zero]

\* numpy.sqrt of a variance: nan stays nan.
Sqrt(x) == IF IsFin(x) /\ x.n >= 0 THEN [k |-> "fin", s |-> 1, r |-> x] ELSE SurdNaN

SurdIsZero(u) == u.k = "fin" /\ u.r.n = 0

\* sqrt(a) / sqrt(b) for b # 0.
SurdDiv(u, v) ==
    IF u.k = "nan" \/ v.k = "nan" THEN SurdNaN
    ELSE [k |-> "fin", s |-> u.s * v.s, r |-> FDiv(u.r, v.r)]

\* a/b < c/d for a, c >= 0 and b, d > 0, by continued fractions (no products).
RECURSIVE FracLess(_, _, _, _)
FracLess(a, b, c, d) ==
    LET qa == a \div b
        qc == c \div d
        ra == a % b
        rc == c % d
    IN  IF qa # qc THEN qa < qc
        ELSE IF rc = 0 THEN FALSE
        ELSE IF ra = 0 THEN TRUE
        ELSE FracLess(d, rc, b, ra)

\* The largest m in lo..hi with m*m <= n/d (lo*lo <= n/d is given).
RECURSIVE ISqrtIn(_, _, _, _)
ISqrtIn(n, d, lo, hi) ==
    IF lo = hi THEN lo
    ELSE LET mid == (lo + hi + 1) \div 2
         IN  IF FracLess(n, d, mid * mid, 1)
             THEN ISqrtIn(n, d, lo, mid - 1)
             ELSE ISqrtIn(n, d, mid, hi)

\* An upper bound of sqrt(n/d): the first power of two whose square exceeds it.
RECURSIVE SqrtCeilPow2(_, _, _)
SqrtCeilPow2(n, d, p) ==
    IF FracLess(n, d, p * p, 1) THEN p ELSE SqrtCeilPow2(n, d, 2 * p)

\* floor(sqrt(n/d)) for n >= 0, d > 0.
ISqrt(n, d) == ISqrtIn(n, d, 0, SqrtCeilPow2(n, d, 1))

\* Round half to even of n/d (d > 0), as Python's round and numpy.rint do.
RoundHalfEven(n, d) ==
    LET q == n \div d
        r == n - q * d
    IN  IF 2 * r < d THEN q
        ELSE IF 2 * r > d THEN q + 1
        ELSE IF q % 2 = 0 THEN q ELSE q + 1

\* round(x, 2) of a float: nan and inf are returned unchanged, no exception.
Round2(x) == IF IsFin(x) THEN Fin(RoundHalfEven(100 * x.n, x.d), 100) ELSE x

\* round(100 * sqrt(n/d)) to the nearest integer, half to even: with
\* t = floor(sqrt(40000 n / d)) = floor(200 sqrt(n/d)), the value lies in
\* [t/2, (t+1)/2); it is a tie exactly when t is odd and t*t = 40000 n / d.
RoundSqrt100(n, d) ==
    LET g == GCD(40000, d)
        nn == (40000 \div g) * n
        dd == d \div g
        t == ISqrt(nn, dd)
        m == (t + 1) \div 2
        tie == t % 2 = 1 /\ ~FracLess(t * t, 1, nn, dd)
    IN  IF tie /\ m % 2 = 1 THEN m - 1 ELSE m

\* round(u, 2) of a surd.
Round2Surd(u) ==
    IF u.k = "nan" THEN NaN
    ELSE IF ~IsFin(u.r) THEN (IF IsNaN(u.r) THEN NaN ELSE InfOfSign(u.s))
    ELSE Fin(u.s * RoundSqrt100(u.r.n, u.r.d), 100)


(***************************************************************************)
(* Frames.  A frame is a sequence of rows [date, close]; a date value is   *)
(* <<"str", day>> (the string 'YYYY-MM-DD' of calendar day `day`) or       *)
(* <<"datetime", day>> (a datetime64 value, midnight of that day).  The    *)
(* date column of a frame has one dtype: all its dates carry the same tag. *)
(***************************************************************************)
DateKinds == {"str", "datetime"}

Empty(df) == Len(df) = 0

\* Series.dt.strftime('%Y-%m-%d') on one datetime value.
StrfTime(dv) == <<"str", dv[2]>>

\* Mutant: the date column is left in the representation it came in.
NormalizeDatesSkipped(df) == df

\* `if not isinstance(df['date'].iloc[0], str): df['date'] = df['date'].dt.strftime(..)`
NormalizeDates(df) ==
    IF df[1].date[1] # "str"
    THEN [i \in 1..Len(df) |-> [df[i] EXCEPT !.date = StrfTime(df[i].date)]]
    ELSE df

\* pd.merge refuses an object (str) key column against a datetime64 one.
MergeRaises(l, r) == l[1].date[1] # r[1].date[1]

\* The rows of r matching one left row, in r's order, as merged rows.
RECURSIVE MatchesOf(_, _, _)
MatchesOf(lrow, r, j) ==
    IF j > Len(r) THEN <<>>
    ELSE (IF r[j].date = lrow.date
          THEN <<[date |-> lrow.date, close_x |-> lrow.close, close_y |-> r[j].close]>>
          ELSE <<>>) \o MatchesOf(lrow, r, j + 1)

\* pd.merge(l, r, on='date', how='inner'): the order of the left keys is kept.
RECURSIVE InnerJoinFrom(_, _, _)
InnerJoinFrom(l, r, i) ==
    IF i > Len(l) THEN <<>>
    ELSE MatchesOf(l[i], r, 1) \o InnerJoinFrom(l, r, i + 1)

Merge(l, r) == InnerJoinFrom(l, r, 1)

\* A column of closes as floats.
CloseX(cd) == [i \in 1..Len(cd) |-> Fin(cd[i].close_x, 1)]
CloseY(cd) == [i \in 1..Len(cd) |-> Fin(cd[i].close_y, 1)]

(***************************************************************************)
(* Series: a sequence of [i |-> index label, v |-> value].                 *)
(***************************************************************************)
\* Series.pct_change(): v[i] / v[i-1] - 1, nan in the first row.
PctChange(col) ==
    [i \in 1..Len(col) |->
        [i |-> i, v |-> IF i = 1 THEN NaN ELSE FSub(FDiv(col[i], col[i - 1]), One)]]

NotNaNEntry(e) == ~IsNaN(e.v)

\* Series.dropna(): nan rows are dropped (inf rows are kept), labels are kept.
DropNa(s) == SelectSeq(s, NotNaNEntry)

Values(s) == [i \in 1..Len(s) |-> s[i].v]

Labels(s) == {s[i].i : i \in 1..Len(s)}

\* Series.align(other, join='inner'): the entries of s whose label is in other.
AlignTo(s, other) ==
    LET keep(e) == e.i \in Labels(other) IN SelectSeq(s, keep)

RECURSIVE FSum(_)
FSum(vs) == IF Len(vs) = 0 THEN Zero ELSE FAdd(vs[1], FSum(Tail(vs)))

Mean(vs) == FDiv(FSum(vs), Fin(Len(vs), 1))

\* sum of (a[i] - ma) * (b[i] - mb)
DotDev(a, ma, b, mb) ==
    FSum([i \in 1..Len(a) |-> FMul(FSub(a[i], ma), FSub(b[i], mb))])

\* numpy.cov(a, b)[i, j]: X -= avg; fact = N - 1 (0 if not positive);
\* c = dot(X, X.T) * (1 / fact).
NpCov(a, b) ==
    LET fact == IF Len(a) - 1 <= 0 THEN 0 ELSE Len(a) - 1
    IN  FMul(DotDev(a, Mean(a), b, Mean(b)), FDiv(One, Fin(fact, 1)))

\* Mutant: the covariance is normalized by the variance of the first argument
\* alone.
NpCorrcoefByFirstVariance(a, b) ==
    LET c00 == NpCov(a, a)
        c01 == NpCov(a, b)
        c11 == NpCov(b, b)
    IN  IF ~(IsFin(c00) /\ IsFin(c01) /\ IsFin(c11)) THEN SurdNaN
        ELSE IF c00.n = 0 \/ c11.n = 0 THEN SurdNaN
        ELSE [k |-> "fin", s |-> Sign(c01),
              r |-> FDiv(FMul(c01, c01), FMul(c00, c00))]

\* numpy.corrcoef(a, b)[0, 1]: c01 / sqrt(c00) / sqrt(c11), clipped to [-1, 1].
NpCorrcoef(a, b) ==
    LET c00 == NpCov(a, a)
        c01 == NpCov(a, b)
        c11 == NpCov(b, b)
    IN  IF ~(IsFin(c00) /\ IsFin(c01) /\ IsFin(c11)) THEN SurdNaN
        ELSE IF c00.n = 0 \/ c11.n = 0 THEN SurdNaN
        ELSE [k |-> "fin", s |-> Sign(c01),
              r |-> FDiv(FMul(c01, c01), FMul(c00, c11))]

\* Series.corr(other): align on the index, then nanops.nancorr (pearson).
Corr(s1, s2) ==
    LET a == Values(AlignTo(s1, s2))
        b == Values(AlignTo(s2, s1))
    IN  IF Len(a) = 0 THEN SurdNaN ELSE NpCorrcoef(a, b)

\* Series.cov(other): align on the index, then numpy.cov(a, b)[0, 1].
Cov(s1, s2) ==
    LET a == Values(AlignTo(s1, s2))
        b == Values(AlignTo(s2, s1))
    IN  IF Len(a) = 0 THEN NaN ELSE NpCov(a, b)

\* Series.var(): nanops.nanvar with ddof = 1; nan when count <= ddof.
Var(s) ==
    LET vs == Values(s)
    IN  IF Len(vs) <= 1 THEN NaN
        ELSE FDiv(DotDev(vs, Mean(vs), vs, Mean(vs)), Fin(Len(vs) - 1, 1))

\* Series.std(): sqrt of Series.var().
Std(s) == Sqrt(Var(s))


(***************************************************************************)
(* DataProcessor                                                           *)
(***************************************************************************)
Returned(rec) == [status |-> "returned", value |-> rec]
Raised(exc) == [status |-> "raised", exc |-> exc]

AssetsSentinel ==
    [correlation |-> Zero, relative_performance |-> Zero, volatility_ratio |-> Zero]

IndexSentinel == [correlation |-> Zero, alpha |-> Zero, beta |-> Zero]

CryptoIndexThreshold == 1000000

FixedBeta == Fin(3, 2)

\* Mutant: the first row of the return sequences (the second aligned row) is
\* taken as the first day.
RelativePerformanceFromReturnRows(cd) ==
    LET first_day_ratio == FDiv(CloseX(cd)[2], CloseY(cd)[2])
        last_day_ratio == FDiv(CloseX(cd)[Len(cd)], CloseY(cd)[Len(cd)])
    IN  FSub(FDiv(last_day_ratio, first_day_ratio), One)

\* Mutant: the difference of the two ratios instead of their quotient.
RelativePerformanceAsDifference(cd) ==
    LET first_day_ratio == FDiv(CloseX(cd)[1], CloseY(cd)[1])
        last_day_ratio == FDiv(CloseX(cd)[Len(cd)], CloseY(cd)[Len(cd)])
    IN  FSub(last_day_ratio, first_day_ratio)

\* (last_day_ratio / first_day_ratio) - 1 inside try/except: the operands are
\* numpy scalars, whose division by zero gives inf or nan and raises nothing.
RelativePerformance(cd) ==
    LET first_day_ratio == FDiv(CloseX(cd)[1], CloseY(cd)[1])
        last_day_ratio == FDiv(CloseX(cd)[Len(cd)], CloseY(cd)[Len(cd)])
    IN  FSub(FDiv(last_day_ratio, first_day_ratio), One)

\* Mutant: the ratio is taken the other way round.
VolatilityRatioInverted(returns1, returns2) ==
    LET volatility1 == Std(returns1)
        volatility2 == Std(returns2)
    IN  IF ~SurdIsZero(volatility1)
        THEN Round2Surd(SurdDiv(volatility2, volatility1))
        ELSE Zero

\* volatility1 / volatility2 if volatility2 != 0 else 0, then round(.., 2).
VolatilityRatio(returns1, returns2) ==
    LET volatility1 == Std(returns1)
        volatility2 == Std(returns2)
    IN  IF ~SurdIsZero(volatility2)
        THEN Round2Surd(SurdDiv(volatility1, volatility2))
        ELSE Zero

\* The body of compare_assets after the merge.
AssetsStatistics(common_dates) ==
    LET returns1 == DropNa(PctChange(CloseX(common_dates)))
        returns2 == DropNa(PctChange(CloseY(common_dates)))
    IN  [correlation |-> Round2Surd(Corr(returns1, returns2)),
         relative_performance |->
             Round2(FMul(RelativePerformance(common_dates), Fin(100, 1))),
         volatility_ratio |-> VolatilityRatio(returns1, returns2)]

compare_assets(df1, df2) ==
    IF Empty(df1) \/ Empty(df2) THEN Returned(AssetsSentinel)
    ELSE LET df1_copy == NormalizeDates(df1)
             df2_copy == NormalizeDates(df2)
         IN  IF MergeRaises(df1_copy, df2_copy) THEN Raised("ValueError")
             ELSE LET common_dates == Merge(df1_copy, df2_copy)
                  IN  IF Len(common_dates) < 2 THEN Returned(AssetsSentinel)
                      ELSE Returned(AssetsStatistics(common_dates))

\* Mutant: the guard also fires at a mean of exactly 1000000.
IsCryptoIndexAtThreshold(common_dates) ==
    ~FGt(Fin(CryptoIndexThreshold, 1), Mean(CloseY(common_dates)))

\* common_dates['close_y'].mean() > 1000000
IsCryptoIndex(common_dates) ==
    FGt(Mean(CloseY(common_dates)), Fin(CryptoIndexThreshold, 1))

\* beta: the fixed value for a crypto index, else covariance / variance
\* if variance != 0 else 0 (nan != 0 is true).
Beta(common_dates, stock_returns, index_returns) ==
    LET covariance == Cov(stock_returns, index_returns)
        variance == Var(index_returns)
    IN  IF IsCryptoIndex(common_dates) THEN FixedBeta
        ELSE IF ~IsZero(variance) THEN FDiv(covariance, variance) ELSE Zero

\* Mutant: alpha is computed from the beta as it is returned, rounded to 2 decimals.
AlphaFromRoundedBeta(common_dates, beta) ==
    LET n == Len(common_dates)
        stock_total_return ==
            FSub(FDiv(CloseX(common_dates)[n], CloseX(common_dates)[1]), One)
        index_total_return ==
            FSub(FDiv(CloseY(common_dates)[n], CloseY(common_dates)[1]), One)
    IN  FSub(stock_total_return, FMul(Round2(beta), index_total_return))

\* stock_total_return - beta * index_total_return over the first and last rows.
Alpha(common_dates, beta) ==
    LET n == Len(common_dates)
        stock_total_return ==
            FSub(FDiv(CloseX(common_dates)[n], CloseX(common_dates)[1]), One)
        index_total_return ==
            FSub(FDiv(CloseY(common_dates)[n], CloseY(common_dates)[1]), One)
    IN  FSub(stock_total_return, FMul(beta, index_total_return))

\* The body of compare_stock_to_index after the merge.
IndexStatistics(common_dates) ==
    LET stock_returns == DropNa(PctChange(CloseX(common_dates)))
        index_returns == DropNa(PctChange(CloseY(common_dates)))
        beta == Beta(common_dates, stock_returns, index_returns)
    IN  [correlation |-> Round2Surd(Corr(stock_returns, index_returns)),
         alpha |-> Round2(FMul(Alpha(common_dates, beta), Fin(100, 1))),
         beta |-> Round2(beta),
         note |-> IF IsCryptoIndex(common_dates)
                  THEN "Values normalized for scale" ELSE ""]

compare_stock_to_index(stock_df, index_df) ==
    IF Empty(stock_df) \/ Empty(index_df) THEN Returned(IndexSentinel)
    ELSE IF MergeRaises(stock_df, index_df) THEN Raised("ValueError")
    ELSE LET common_dates == Merge(stock_df, index_df)
         IN  IF Len(common_dates) < 2 THEN Returned(IndexSentinel)
             ELSE Returned(IndexStatistics(common_dates))


(***************************************************************************)
(* DataProcessor.calculate_metrics.  A bar is a row [open, high, low,      *)
(* close, volume] of integers; the averages are floats, the other fields   *)
(* are the values of the rows they are read from.                          *)
(***************************************************************************)
FiftyDayWindow == 50

TwoHundredDayWindow == 200

YearWindow == 252

Min(a, b) == IF a < b THEN a ELSE b

\* df.tail(n) for 0 < n <= len(df): the last n rows.
TailRows(df, n) == SubSeq(df, Len(df) - n + 1, Len(df))

\* The sum of the close column of rows i.. of a frame.
RECURSIVE SumCloseFrom(_, _)
SumCloseFrom(rows, i) ==
    IF i > Len(rows) THEN 0 ELSE rows[i].close + SumCloseFrom(rows, i + 1)

\* df['close'].mean() of a non-empty frame.
MeanClose(rows) == Fin(SumCloseFrom(rows, 1), Len(rows))

\* Mutant: the sentinel keeps a non-zero previous close.
MetricsSentinelStalePreviousClose ==
    [open |-> 0, high |-> 0, low |-> 0, close |-> 0, volume |-> 0,
     previous_close |-> 1, fifty_day_avg |-> Zero, two_hundred_day_avg |-> Zero,
     year_high |-> 0, year_low |-> 0]

\* The record returned for an empty frame: every field 0.
MetricsSentinel ==
    [open |-> 0, high |-> 0, low |-> 0, close |-> 0, volume |-> 0,
     previous_close |-> 0, fifty_day_avg |-> Zero, two_hundred_day_avg |-> Zero,
     year_high |-> 0, year_low |-> 0]

\* Mutant: the close of the latest bar is taken as the previous close.
PreviousCloseOfLatest(df) == df[Len(df)].close

\* df.iloc[-2]['close'] if len(df) > 1 else 0
PreviousClose(df) == IF Len(df) > 1 THEN df[Len(df) - 1].close ELSE 0

\* Mutant: the average is taken over the whole series.
MovingAverageOverAll(df, window) == MeanClose(df)

\* df['close'].tail(min(window, len(df))).mean()
MovingAverage(df, window) == MeanClose(TailRows(df, Min(window, Len(df))))

\* Mutant: the year window is the whole series.
YearDataWholeSeries(df) == df

\* df.tail(min(252, len(df)))
YearData(df) == TailRows(df, Min(YearWindow, Len(df)))

\* year_data['high'].max()
MaxHigh(rows) ==
    CHOOSE m \in {rows[i].high : i \in 1..Len(rows)} :
        \A i \in 1..Len(rows) : rows[i].high <= m

\* year_data['low'].min()
MinLow(rows) ==
    CHOOSE m \in {rows[i].low : i \in 1..Len(rows)} :
        \A i \in 1..Len(rows) : m <= rows[i].low

calculate_metrics(df) ==
    IF Empty(df) THEN MetricsSentinel
    ELSE LET latest == df[Len(df)]
             year_data == YearData(df)
         IN  [open |-> latest.open,
              high |-> latest.high,
              low |-> latest.low,
              close |-> latest.close,
              volume |-> latest.volume,
              previous_close |-> PreviousClose(df),
              fifty_day_avg |-> MovingAverage(df, FiftyDayWindow),
              two_hundred_day_avg |-> MovingAverage(df, TwoHundredDayWindow),
              year_high |-> MaxHigh(year_data),
              year_low |-> MinLow(year_data)]


(***************************************************************************)
(* State machine: two price series are built bar by bar, as a              *)
(* PriceSeriesSource delivers them (ascending dates, no date twice, one    *)
(* date representation per series), and are then handed to compare_assets  *)
(* or compare_stock_to_index.  feed says what the source may deliver:      *)
(* "valid" closes are positive, a "degenerate" feed also delivers 0.       *)
(***************************************************************************)
VARIABLES feed, df1, df2, op, result

\* The presentation layer: the module-level caches of app.py and the click
\* count of the refresh button.
VARIABLES STOCK_DATA, CRYPTO_DATA, INDEX_DATA, n_clicks

\* The fetching layer: the fetcher's mode, the HTTP requests the running or
\* last public method has issued, and the nested get_available_cryptos frames.
VARIABLES use_mock_data, http_requests, depth

\* The process-wide numpy generator and the mock generations drawing from it.
VARIABLES rng, gen

caches == <<STOCK_DATA, CRYPTO_DATA, INDEX_DATA, n_clicks>>

fetching == <<use_mock_data, http_requests, depth>>

generators == <<rng, gen>>

layers == <<caches, fetching, generators>>

vars == <<feed, df1, df2, op, result, layers>>

\* Bound: the calendar days a bar can carry are 1..MaxDay.
MaxDay == 3

Days == 1..MaxDay

\* Closes of a bar, in units of the series' scale.
Closes == IF feed = "degenerate" THEN {0, 1, 3} ELSE {1, 3}

\* The second series may be a market-cap index, with closes in the millions.
CryptoScale == CryptoIndexThreshold

IndexCloses == Closes \cup {c * CryptoScale : c \in Closes}

NoResult == [status |-> "none"]

LastDay(df) == IF Empty(df) THEN 0 ELSE df[Len(df)].date[2]

\* The dtype of the date column of a frame a bar of kind k is appended to.
SameKind(df, k) == IF Empty(df) THEN TRUE ELSE df[1].date[1] = k

\* A series is on one scale: its non-zero closes are all units or all millions.
SameScale(df, c) ==
    \A i \in 1..Len(df) :
        df[i].close = 0 \/ c = 0 \/ ((df[i].close >= CryptoScale) = (c >= CryptoScale))

\* The caches as the module creates them, no click yet.
InitCaches ==
    /\ STOCK_DATA = <<>>
    /\ CRYPTO_DATA = <<>>
    /\ INDEX_DATA = <<>>
    /\ n_clicks = 0

\* A fetcher in the default mode of config.py, no call running.
InitFetching ==
    /\ use_mock_data = TRUE
    /\ http_requests = 0
    /\ depth = 0

\* The generator before any seeding, no generation running.
InitGenerators ==
    /\ rng = [seed |-> 0, drawn |-> 0]
    /\ gen = <<>>

InitFrames ==
    /\ df1 = <<>>
    /\ df2 = <<>>
    /\ op = "none"
    /\ result = NoResult
    /\ InitCaches
    /\ InitFetching
    /\ InitGenerators

Init == feed = "valid" /\ InitFrames

InitDegenerate == feed = "degenerate" /\ InitFrames

\* The source appends the bar of a later day to the first series.
AppendRow1 ==
    /\ feed # "bars"
    /\ op = "none"
    /\ \E d \in Days, c \in Closes, k \in DateKinds :
        /\ d > LastDay(df1)
        /\ SameKind(df1, k)
        /\ df1' = Append(df1, [date |-> <<k, d>>, close |-> c])
    /\ UNCHANGED <<feed, df2, op, result, layers>>

\* The source appends the bar of a later day to the second series.
AppendRow2 ==
    /\ feed # "bars"
    /\ op = "none"
    /\ \E d \in Days, c \in IndexCloses, k \in DateKinds :
        /\ d > LastDay(df2)
        /\ SameKind(df2, k)
        /\ SameScale(df2, c)
        /\ df2' = Append(df2, [date |-> <<k, d>>, close |-> c])
    /\ UNCHANGED <<feed, df1, op, result, layers>>

\* The date column of the private copy of df when compare_assets(df, other)
\* ends: converted once both frames have passed the emptiness check.
CopyAfterCompareAssets(df, other) ==
    IF Empty(df) \/ Empty(other) THEN df ELSE NormalizeDates(df)

\* Mutant: df_copy is the argument frame itself, so the conversion of the date
\* column is written to the caller's frame.
ArgumentAliasedToCopy(df, df_copy) == df_copy

\* The argument frame after the call: `df1_copy = df1.copy()` takes the writes.
ArgumentAfterCall(df, df_copy) == df

CompareAssets ==
    /\ op = "none"
    /\ op' = "compare_assets"
    /\ result' = compare_assets(df1, df2)
    /\ df1' = ArgumentAfterCall(df1, CopyAfterCompareAssets(df1, df2))
    /\ df2' = ArgumentAfterCall(df2, CopyAfterCompareAssets(df2, df1))
    /\ UNCHANGED <<feed, layers>>

CompareStockToIndex ==
    /\ op = "none"
    /\ op' = "compare_stock_to_index"
    /\ result' = compare_stock_to_index(df1, df2)
    /\ UNCHANGED <<feed, df1, df2, layers>>

Next == AppendRow1 \/ AppendRow2 \/ CompareAssets \/ CompareStockToIndex

\* Series of positive closes.
Spec == Init /\ [][Next]_vars

\* Series that may contain zero closes.
SpecDegenerate == InitDegenerate /\ [][Next]_vars

(***************************************************************************)
(* State machine of calculate_metrics: one series of bars is built, oldest *)
(* bar first, and handed to calculate_metrics.  The series has a free      *)
(* first bar, then a run of regular bars, then at most MaxTail free bars,  *)
(* so that series longer than every window are reached with few states.    *)
(***************************************************************************)
\* Bound: the longest series, one bar more than the widest window and its
\* older bar.
MaxBars == 254

\* Bound: the free bars at the end of a series.
MaxTail == 2

RegularBar == [open |-> 10, high |-> 12, low |-> 8, close |-> 10, volume |-> 100]

\* A bar ranging over and under every regular bar.
WideBar == [open |-> 20, high |-> 40, low |-> 2, close |-> 30, volume |-> 200]

\* A bar whose low is above its high: the source data is not validated.
CrossedBar == [open |-> 20, high |-> 18, low |-> 22, close |-> 20, volume |-> 50]

BarKinds == {RegularBar, WideBar, CrossedBar}

\* The positions after the first bar that hold a bar other than the regular one.
Irregular(df) == {i \in 2..Len(df) : df[i] # RegularBar}

\* The free bars at the end of the series: from the first irregular position.
TailLength(df) ==
    IF Irregular(df) = {} THEN 0
    ELSE Len(df) + 1 - (CHOOSE q \in Irregular(df) : \A i \in Irregular(df) : q <= i)

InitMetrics == feed = "bars" /\ InitFrames

\* The source appends the next bar to the series.
AppendBar ==
    /\ feed = "bars"
    /\ op = "none"
    /\ Len(df1) < MaxBars
    /\ IF Irregular(df1) = {} THEN TRUE ELSE TailLength(df1) < MaxTail
    /\ \E b \in BarKinds : df1' = Append(df1, b)
    /\ UNCHANGED <<feed, df2, op, result, layers>>

CalculateMetrics ==
    /\ feed = "bars"
    /\ op = "none"
    /\ op' = "calculate_metrics"
    /\ result' = Returned(calculate_metrics(df1))
    /\ UNCHANGED <<feed, df1, df2, layers>>

NextMetrics == AppendBar \/ CalculateMetrics

\* One series of bars and calculate_metrics.
SpecMetrics == InitMetrics /\ [][NextMetrics]_vars

InitAll == feed \in {"valid", "bars"} /\ InitFrames

NextAll == Next \/ NextMetrics

\* All three functions, each on the series its callers hand to it.
SpecAll == InitAll /\ [][NextAll]_vars

(***************************************************************************)
(* Vocabulary of the properties, stated on the inputs and independent of   *)
(* the operators above: the calendar days two series share, and the closes *)
(* of both series on those days in ascending order (the aligned rows).     *)
(***************************************************************************)
Called(f) == op = f

Computed(f) == op = f /\ result.status = "returned"

DaysOf(df) == {df[i].date[2] : i \in 1..Len(df)}

SharedDays == DaysOf(df1) \cap DaysOf(df2)

NumAligned == Cardinality(SharedDays)

\* The i-th shared day in ascending order.
SharedDay(i) == CHOOSE d \in SharedDays : Cardinality({e \in SharedDays : e < d}) = i - 1

CloseOn(df, d) == (CHOOSE r \in {df[i] : i \in 1..Len(df)} : r.date[2] = d).close

AlignedA == [i \in 1..NumAligned |-> CloseOn(df1, SharedDay(i))]

AlignedB == [i \in 1..NumAligned |-> CloseOn(df2, SharedDay(i))]

MixedKinds == ~Empty(df1) /\ ~Empty(df2) /\ df1[1].date[1] # df2[1].date[1]

\* A frame with every date in the 'YYYY-MM-DD' string form.
StringForm(df) == [i \in 1..Len(df) |-> [df[i] EXCEPT !.date = <<"str", df[i].date[2]>>]]

InsufficientData == Empty(df1) \/ Empty(df2) \/ NumAligned < 2

(***************************************************************************)
(* C1: whenever either series is empty or the two series share fewer than  *)
(* 2 dates, compare_assets returns exactly the zero sentinel and           *)
(* compare_stock_to_index returns correlation 0, alpha 0, beta 0, neither  *)
(* of them raising.                                                        *)
(***************************************************************************)
C1_InsufficientDataYieldsSentinel ==
    /\ (Called("compare_assets") /\ InsufficientData)
          => result = Returned(AssetsSentinel)
    /\ (Called("compare_stock_to_index") /\ InsufficientData)
          => /\ result.status = "returned"
             /\ result.value.correlation = Zero
             /\ result.value.alpha = Zero
             /\ result.value.beta = Zero

(***************************************************************************)
(* C2: compare_assets and compare_stock_to_index never raise, whatever the *)
(* shape of the two series with numeric closes: every call returns a       *)
(* result record.                                                          *)
(***************************************************************************)
C2_NeverRaises == op # "none" => result.status = "returned"

(***************************************************************************)
(* C3: with at least 2 aligned rows and a return sequence of zero variance *)
(* (constant closes in one of the aligned series), the returned            *)
(* correlation is 0, not nan, for both comparisons.                        *)
(***************************************************************************)
ConstantCloses(cs) == \A i \in 1..Len(cs) : cs[i] = cs[1]

C3_ZeroVarianceCorrelationIsZero ==
    ((Computed("compare_assets") \/ Computed("compare_stock_to_index"))
        /\ NumAligned >= 2
        /\ (ConstantCloses(AlignedA) \/ ConstantCloses(AlignedB)))
    => result.value.correlation = Zero

(***************************************************************************)
(* C4: compare_assets normalizes both date columns to the calendar-date    *)
(* string before joining: a datetime series and a string series are        *)
(* aligned on every calendar day they share, and the result equals the     *)
(* result for the same two series in string form.                          *)
(***************************************************************************)
\* The dates of the frame compare_assets joins, for the current inputs.
NormalizedJoinDates ==
    LET cd == Merge(NormalizeDates(df1), NormalizeDates(df2))
    IN  [i \in 1..Len(cd) |-> cd[i].date]

C4_CompareAssetsNormalizesDates ==
    (Called("compare_assets") /\ MixedKinds)
    => /\ NormalizedJoinDates = [i \in 1..NumAligned |-> <<"str", SharedDay(i)>>]
       /\ result = compare_assets(StringForm(df1), StringForm(df2))

\* A datetime series and a string series sharing all three days, compared.
C4_Witness ==
    /\ Computed("compare_assets")
    /\ MixedKinds
    /\ NumAligned >= 3
    /\ result.value # AssetsSentinel

(***************************************************************************)
(* C5: compare_stock_to_index applies the same normalization and inner     *)
(* join: for an asset and an index series in different date                *)
(* representations it aligns them on their shared calendar days and        *)
(* computes the statistics of the string forms, rather than raising or     *)
(* returning the sentinel.                                                 *)
(***************************************************************************)
C5_CompareToIndexNormalizesDates ==
    (Called("compare_stock_to_index") /\ MixedKinds)
    => result = compare_stock_to_index(StringForm(df1), StringForm(df2))

(***************************************************************************)
(* C6: alignment is an inner join on date equality, in the order of the    *)
(* first series, and every output depends only on the aligned rows:        *)
(* removing a bar whose date occurs in only one of the two series leaves   *)
(* the outcome of compare_assets and compare_stock_to_index unchanged.     *)
(***************************************************************************)
RemoveAt(df, i) == SubSeq(df, 1, i - 1) \o SubSeq(df, i + 1, Len(df))

Outcome(f, a, b) ==
    IF f = "compare_assets" THEN compare_assets(a, b) ELSE compare_stock_to_index(a, b)

C6_DependsOnlyOnAlignedRows ==
    op # "none"
    => /\ \A i \in 1..Len(df1) :
            df1[i].date[2] \notin SharedDays => Outcome(op, RemoveAt(df1, i), df2) = result
       /\ \A j \in 1..Len(df2) :
            df2[j].date[2] \notin SharedDays => Outcome(op, df1, RemoveAt(df2, j)) = result
       /\ ~Empty(df1) /\ ~Empty(df2) /\ ~MixedKinds
            => Merge(df1, df2) =
                 [i \in 1..NumAligned |->
                    [date |-> <<df1[1].date[1], SharedDay(i)>>,
                     close_x |-> AlignedA[i], close_y |-> AlignedB[i]]]

(***************************************************************************)
(* Statistics of the aligned rows, computed from their definitions: simple *)
(* returns r[i] = close[i+1]/close[i] - 1 of positive closes, and the sums *)
(* n*sum(x*y) - sum(x)*sum(y), which are n*(n-1) times the sample          *)
(* covariance (the sample variance for x = y).                             *)
(***************************************************************************)
Positive(cs) == \A i \in 1..Len(cs) : cs[i] > 0

ReturnsOf(cs) ==
    [i \in 1..(Len(cs) - 1) |-> FSub(FDiv(Fin(cs[i + 1], 1), Fin(cs[i], 1)), One)]

RECURSIVE SumProd(_, _, _)
SumProd(xs, ys, i) ==
    IF i > Len(xs) THEN Zero ELSE FAdd(FMul(xs[i], ys[i]), SumProd(xs, ys, i + 1))

Ones(xs) == [i \in 1..Len(xs) |-> One]

ScaledCov(xs, ys) ==
    FSub(FMul(Fin(Len(xs), 1), SumProd(xs, ys, 1)),
         FMul(SumProd(xs, Ones(xs), 1), SumProd(ys, Ones(ys), 1)))

\* A returned field that is a finite number of hundredths.
IsHundredths(v) == IsFin(v) /\ 100 % v.d = 0

Hundredths(v) == v.n * (100 \div v.d)

\* v is x rounded to 2 decimals: a number of hundredths within 0.005 of x.
IsRound2Of(v, x) ==
    /\ IsHundredths(v)
    /\ IsFin(x)
    /\ Abs(200 * x.n - 2 * Hundredths(v) * x.d) <= x.d

\* v is sqrt(q) rounded to 2 decimals, for a rational q >= 0.
IsRound2OfSqrt(v, q) ==
    LET k == Hundredths(v)
    IN  /\ IsHundredths(v)
        /\ k >= 0
        /\ IsFin(q)
        /\ k > 0 => (2 * k - 1) * (2 * k - 1) * q.d <= 40000 * q.n
        /\ 40000 * q.n <= (2 * k + 1) * (2 * k + 1) * q.d

(***************************************************************************)
(* C7: with at least 2 aligned rows and non-zero closes, compare_assets    *)
(* returns relative_performance =                                          *)
(*   round(((closeA[last]/closeB[last]) / (closeA[0]/closeB[0]) - 1)*100, 2)*)
(* over the first and last aligned rows.                                   *)
(***************************************************************************)
\* ((aL/bL) / (a0/b0) - 1) * 100 as a fraction of integers.
RelativePerformancePercent ==
    LET a0 == AlignedA[1]
        aL == AlignedA[NumAligned]
        b0 == AlignedB[1]
        bL == AlignedB[NumAligned]
        g == GCD(b0, bL)
        p == aL * (b0 \div g)
        q == (bL \div g) * a0
    IN  Fin(100 * (p - q), q)

C7_RelativePerformanceFormula ==
    (Computed("compare_assets") /\ NumAligned >= 2
        /\ Positive(AlignedA) /\ Positive(AlignedB))
    => IsRound2Of(result.value.relative_performance, RelativePerformancePercent)

\* Three aligned rows whose first, second and last ratios all differ.
C7_Witness ==
    /\ Computed("compare_assets")
    /\ NumAligned = 3
    /\ AlignedA = <<3, 1, 1>>
    /\ AlignedB = <<1, 3, 1>>
    /\ result.value.relative_performance = Fin(-6667, 100)

(***************************************************************************)
(* C8: if a denominator of the relative_performance computation is zero    *)
(* (closeB of the first or of the last aligned row, or closeA of the first *)
(* aligned row), relative_performance is 0, never inf or nan.              *)
(***************************************************************************)
C8_ZeroDenominatorYieldsZero ==
    (Computed("compare_assets") /\ NumAligned >= 2
        /\ (AlignedB[1] = 0 \/ AlignedB[NumAligned] = 0 \/ AlignedA[1] = 0))
    => result.value.relative_performance = Zero

RECURSIVE SumOf(_)
SumOf(cs) == IF Len(cs) = 0 THEN 0 ELSE cs[1] + SumOf(Tail(cs))

\* The mean of the closes cs exceeds the threshold.
MeanExceedsThreshold(cs) == Len(cs) > 0 /\ SumOf(cs) > CryptoIndexThreshold * Len(cs)

\* v is the beta computed from the aligned returns: round(cov / var, 2), 0 for
\* a variance of 0, nan for a single return (covariance and variance undefined).
IsBetaFromReturns(v) ==
    LET ra == ReturnsOf(AlignedA)
        rb == ReturnsOf(AlignedB)
    IN  IF NumAligned = 2 THEN IsNaN(v)
        ELSE IF IsZero(ScaledCov(rb, rb)) THEN v = Zero
        ELSE IsRound2Of(v, FDiv(ScaledCov(ra, rb), ScaledCov(rb, rb)))

\* C10 as claimed: whenever the mean close of the index series exceeds
\* 1,000,000 the returned beta is the fixed 1.5; when it is at most 1,000,000
\* the fixed value is not substituted and beta is computed from the returns.
C10_GuardOnIndexSeriesMean ==
    Called("compare_stock_to_index")
    => IF MeanExceedsThreshold([j \in 1..Len(df2) |-> df2[j].close])
       THEN result.status = "returned" /\ result.value.beta = Fin(3, 2)
       ELSE (Computed("compare_stock_to_index") /\ NumAligned >= 2)
               => (result.value.note = "" /\ IsBetaFromReturns(result.value.beta))

\* C10 amended: when compare_stock_to_index has at least 2 aligned rows, the
\* returned beta is the fixed 1.5 exactly if the mean of the index closes over
\* the aligned rows exceeds 1,000,000; otherwise beta is computed from the
\* returns of the aligned rows.
C10_GuardOnAlignedIndexMean ==
    (Computed("compare_stock_to_index") /\ NumAligned >= 2)
    => IF MeanExceedsThreshold(AlignedB)
       THEN result.value.beta = Fin(3, 2)
              /\ result.value.note = "Values normalized for scale"
       ELSE /\ result.value.note = ""
            /\ (Positive(AlignedA) /\ Positive(AlignedB))
                  => IsBetaFromReturns(result.value.beta)

\* The guard fires on three aligned rows whose returns give another beta.
C10_Witness ==
    /\ Computed("compare_stock_to_index")
    /\ AlignedA = <<1, 3, 1>>
    /\ AlignedB = <<1000000, 3000000, 1000000>>
    /\ result.value.beta = Fin(3, 2)
    /\ ~IsBetaFromReturns(result.value.beta)

(***************************************************************************)
(* C11: when the guard does not apply and there are at least 2 aligned     *)
(* rows, compare_stock_to_index returns beta =                             *)
(* round(cov(returnsA, returnsI) / var(returnsI), 2), and beta = 0 (not    *)
(* nan or inf) whenever var(returnsI) is 0 or undefined (a single return). *)
(***************************************************************************)
C11_BetaFormulaZeroOnDegenerateVariance ==
    (Computed("compare_stock_to_index") /\ NumAligned >= 2
        /\ ~MeanExceedsThreshold(AlignedB)
        /\ Positive(AlignedA) /\ Positive(AlignedB))
    => LET ra == ReturnsOf(AlignedA)
           rb == ReturnsOf(AlignedB)
           v == result.value.beta
       IN  IF NumAligned = 2 THEN v = Zero
           ELSE IF IsZero(ScaledCov(rb, rb)) THEN v = Zero
           ELSE IsRound2Of(v, FDiv(ScaledCov(ra, rb), ScaledCov(rb, rb)))

(***************************************************************************)
(* C12: compare_stock_to_index returns alpha =                             *)
(* round((totalA - beta * totalI) * 100, 2) with the total returns taken   *)
(* over the first and last aligned rows and beta the unrounded beta the    *)
(* call selected: the fixed 1.5 under the guard, else cov/var (0 for a     *)
(* variance of 0, nan for a single return, which makes alpha nan).         *)
(***************************************************************************)
\* close[last]/close[first] - 1 over aligned closes cs.
TotalReturn(cs) == Fin(cs[Len(cs)] - cs[1], cs[1])

\* The beta selected for the aligned rows, before rounding.
SelectedBeta ==
    LET ra == ReturnsOf(AlignedA)
        rb == ReturnsOf(AlignedB)
    IN  IF MeanExceedsThreshold(AlignedB) THEN Fin(3, 2)
        ELSE IF NumAligned = 2 THEN NaN
        ELSE IF IsZero(ScaledCov(rb, rb)) THEN Zero
        ELSE FDiv(ScaledCov(ra, rb), ScaledCov(rb, rb))

AlphaPercent ==
    FMul(Fin(100, 1),
         FSub(TotalReturn(AlignedA), FMul(SelectedBeta, TotalReturn(AlignedB))))

C12_AlphaFormula ==
    (Computed("compare_stock_to_index") /\ NumAligned >= 2
        /\ Positive(AlignedA) /\ Positive(AlignedB))
    => IF IsNaN(AlphaPercent) THEN IsNaN(result.value.alpha)
       ELSE IsRound2Of(result.value.alpha, AlphaPercent)

\* beta = 1/3 is returned as 0.33 while alpha = (-2/3 - 1/3 * 2) * 100.
C12_Witness ==
    /\ Computed("compare_stock_to_index")
    /\ AlignedA = <<3, 3, 1>>
    /\ AlignedB = <<1, 3, 3>>
    /\ result.value.beta = Fin(33, 100)
    /\ result.value.alpha = Fin(-13333, 100)

(***************************************************************************)
(* Vocabulary of the calculate_metrics properties: the window of the last  *)
(* w bars of the series df1 by positions, and the total of the closes in   *)
(* it, counted per close value.                                            *)
(***************************************************************************)
MetricFields ==
    {"open", "high", "low", "close", "volume", "previous_close",
     "fifty_day_avg", "two_hundred_day_avg", "year_high", "year_low"}

\* The positions of the last w bars (all bars when there are at most w).
Window(w) == {i \in 1..Len(df1) : i > Len(df1) - w}

RECURSIVE WeightedTotal(_, _)
WeightedTotal(cs, w) ==
    IF cs = {} THEN 0
    ELSE LET c == CHOOSE x \in cs : TRUE
         IN  c * Cardinality({i \in Window(w) : df1[i].close = c})
                + WeightedTotal(cs \ {c}, w)

\* The arithmetic mean of close over the last w bars.
WindowMean(w) ==
    Fin(WeightedTotal({df1[i].close : i \in Window(w)}, w), Cardinality(Window(w)))

\* The series without the bars older than the last w.
WithoutOlderThan(w) ==
    SubSeq(df1, Len(df1) + 1 - Cardinality(Window(w)), Len(df1))

(***************************************************************************)
(* C13: calculate_metrics on an empty series returns a record whose ten    *)
(* fields are all 0, and raises nothing.                                   *)
(***************************************************************************)
C13_EmptySeriesYieldsZeroMetrics ==
    (Called("calculate_metrics") /\ Empty(df1))
    => /\ result.status = "returned"
       /\ DOMAIN result.value = MetricFields
       /\ \A f \in {"open", "high", "low", "close", "volume",
                     "previous_close", "year_high", "year_low"} :
              result.value[f] = 0
       /\ IsZero(result.value.fifty_day_avg)
       /\ IsZero(result.value.two_hundred_day_avg)

C13_Witness ==
    /\ Computed("calculate_metrics")
    /\ Empty(df1)
    /\ result.value.previous_close = 0

(***************************************************************************)
(* C14: for a non-empty series of N bars, open, high, low, close and       *)
(* volume are the fields of the last bar, and previous_close is the close  *)
(* of bar N-1 when N >= 2 and 0 when N = 1.                                *)
(***************************************************************************)
C14_LatestBarAndPreviousClose ==
    (Called("calculate_metrics") /\ ~Empty(df1))
    => LET n == Len(df1)
           m == result.value
       IN  /\ result.status = "returned"
           /\ m.open = df1[n].open
           /\ m.high = df1[n].high
           /\ m.low = df1[n].low
           /\ m.close = df1[n].close
           /\ m.volume = df1[n].volume
           /\ m.previous_close = IF n >= 2 THEN df1[n - 1].close ELSE 0

\* Closes 10, 20, 30: close 30 and previous_close 20.
C14_Witness ==
    /\ Computed("calculate_metrics")
    /\ df1 = <<RegularBar, CrossedBar, WideBar>>
    /\ result.value.close = 30
    /\ result.value.previous_close = 20

(***************************************************************************)
(* C15: fifty_day_avg is the mean of close over exactly the last           *)
(* min(50, N) bars and two_hundred_day_avg over the last min(200, N):      *)
(* older bars have no influence, and for N below the window the mean is    *)
(* over all N bars.                                                        *)
(***************************************************************************)
C15_MovingAverages ==
    (Called("calculate_metrics") /\ ~Empty(df1))
    => LET m == result.value
       IN  /\ m.fifty_day_avg = WindowMean(50)
           /\ m.two_hundred_day_avg = WindowMean(200)
           /\ m.fifty_day_avg = calculate_metrics(WithoutOlderThan(50)).fifty_day_avg
           /\ m.two_hundred_day_avg =
                  calculate_metrics(WithoutOlderThan(200)).two_hundred_day_avg
           /\ Len(df1) <= 50 => m.fifty_day_avg = m.two_hundred_day_avg

\* 201 bars: the first, a wide bar, is older than both windows; the last is wide.
C15_Witness ==
    /\ Computed("calculate_metrics")
    /\ Len(df1) = 201
    /\ df1[1] = WideBar
    /\ df1[201] = WideBar
    /\ result.value.fifty_day_avg = Fin(52, 5)
    /\ result.value.two_hundred_day_avg = Fin(101, 10)

(***************************************************************************)
(* C16: year_high is the maximum of high and year_low the minimum of low   *)
(* over the last min(252, N) bars; an older bar never sets either value,   *)
(* and year_low <= year_high whenever every bar of the window has          *)
(* low <= high.                                                            *)
(***************************************************************************)
C16_YearHighLow ==
    (Called("calculate_metrics") /\ ~Empty(df1))
    => LET m == result.value
           W == Window(252)
       IN  /\ \E i \in W : m.year_high = df1[i].high
           /\ \A i \in W : df1[i].high <= m.year_high
           /\ \E i \in W : m.year_low = df1[i].low
           /\ \A i \in W : m.year_low <= df1[i].low
           /\ (\A i \in W : df1[i].low <= df1[i].high) => m.year_low <= m.year_high

\* 253 bars: the first, a wide bar with the highest high and the lowest low,
\* is older than the window.
C16_Witness ==
    /\ Computed("calculate_metrics")
    /\ Len(df1) = 253
    /\ df1[1] = WideBar
    /\ \A i \in 2..253 : df1[i] = RegularBar
    /\ result.value.year_high = 12
    /\ result.value.year_low = 8

(***************************************************************************)
(* C17: correlation is symmetric under swapping the arguments: the         *)
(* correlation of compare_assets(A, B) is that of compare_assets(B, A)     *)
(* (the same number, or undefined in both orders).                         *)
(***************************************************************************)
C17_CorrelationSymmetric ==
    Called("compare_assets")
    => LET swapped == compare_assets(df2, df1)
       IN  /\ swapped.status = result.status
           /\ result.status = "returned"
                 => swapped.value.correlation = result.value.correlation

\* Two different series whose returns have different variances.
C17_Witness ==
    /\ Computed("compare_assets")
    /\ AlignedA = <<1, 3, 1>>
    /\ AlignedB = <<1, 1, 3>>
    /\ result.value.correlation = Fin(-1, 1)
    /\ compare_assets(df2, df1).value.correlation = Fin(-1, 1)

(***************************************************************************)
(* C18: swapping the arguments of compare_assets inverts the ratio basis   *)
(* of relative_performance: with at least 2 aligned rows of non-zero       *)
(* closes, the unrounded values x of (A, B) and y of (B, A) satisfy        *)
(* (1 + x) * (1 + y) = 1, and the value returned for (B, A) is the formula *)
(* with A and B exchanged, not the negation of the value for (A, B).       *)
(***************************************************************************)
\* relative_performance of compare_assets(a, b) before `* 100` and round.
UnroundedRelativePerformance(a, b) ==
    RelativePerformance(Merge(NormalizeDates(a), NormalizeDates(b)))

\* ((bL/aL) / (b0/a0) - 1) * 100 as a fraction of integers.
SwappedRelativePerformancePercent ==
    LET a0 == AlignedA[1]
        aL == AlignedA[NumAligned]
        b0 == AlignedB[1]
        bL == AlignedB[NumAligned]
        g == GCD(b0, bL)
        p == (bL \div g) * a0
        q == aL * (b0 \div g)
    IN  Fin(100 * (p - q), q)

C18_SwapInvertsRatioBasis ==
    (Computed("compare_assets") /\ NumAligned >= 2
        /\ Positive(AlignedA) /\ Positive(AlignedB))
    => LET x == UnroundedRelativePerformance(df1, df2)
           y == UnroundedRelativePerformance(df2, df1)
           swapped == compare_assets(df2, df1)
       IN  /\ FMul(FAdd(One, x), FAdd(One, y)) = One
           /\ result.value.relative_performance = Round2(FMul(x, Fin(100, 1)))
           /\ swapped.status = "returned"
           /\ swapped.value.relative_performance = Round2(FMul(y, Fin(100, 1)))
           /\ IsRound2Of(swapped.value.relative_performance,
                         SwappedRelativePerformancePercent)

\* x = -2/3 and y = 2: the swapped value is not the negation.
C18_Witness ==
    /\ Computed("compare_assets")
    /\ AlignedA = <<3, 1, 1>>
    /\ AlignedB = <<1, 3, 1>>
    /\ UnroundedRelativePerformance(df1, df2) = Fin(-2, 3)
    /\ UnroundedRelativePerformance(df2, df1) = Fin(2, 1)
    /\ compare_assets(df2, df1).value.relative_performance = Fin(200, 1)

(***************************************************************************)
(* C19: no call of calculate_metrics, compare_assets or                    *)
(* compare_stock_to_index changes its input series or any state a later    *)
(* call reads, and the call repeated on the inputs as they are after the   *)
(* call returns the identical output.                                      *)
(***************************************************************************)
\* What a call of f on the series a and b returns or raises.
OutcomeOfCall(f, a, b) ==
    IF f = "calculate_metrics" THEN Returned(calculate_metrics(a)) ELSE Outcome(f, a, b)

C20_TwoAlignedRowsFullyNumeric ==
    (Computed("compare_assets") /\ NumAligned = 2
        /\ Positive(AlignedA) /\ Positive(AlignedB))
    => /\ result.value.volatility_ratio = Zero
       /\ IsRound2Of(result.value.relative_performance, RelativePerformancePercent)
       /\ IsFin(result.value.correlation)
       /\ (AlignedA[2] > AlignedA[1] /\ AlignedB[2] < AlignedB[1])
             => result.value.correlation = Fin(-1, 1)


(***************************************************************************)
(* Presentation layer (app.py): the callbacks that read the price series   *)
(* through the module-level caches.  A callback is invoked with the id of  *)
(* the input that triggered it ("" on the initial call); a click of the    *)
(* refresh button raises n_clicks and invokes every callback that has the  *)
(* button as an Input, in any order and interleaved with the invocations   *)
(* that dropdown changes trigger.  The charts and price displays are left  *)
(* out of the outputs; the statistics the callbacks show are kept.         *)
(***************************************************************************)
RefreshButton == "refresh-button"

\* Bound: the clicks of the refresh button.
MaxClicks == 1

StockSymbols == {"AAPL"}

IndexSymbols == {"SPY"}

CryptoSymbols == {"BTC"}

CryptoIndexSymbols == {"TOTAL"}

\* f"INDEX_{index_symbol}"
IndexKey(index_symbol) == "INDEX_" \o index_symbol

\* A series as the fetchers of stock_fetcher.py and crypto_fetcher.py hand it
\* out: string dates, ascending, one bar per day.
DailyBars(closes) ==
    [i \in 1..Len(closes) |->
        [date |-> <<"str", i>>, open |-> closes[i], high |-> closes[i],
         low |-> closes[i], close |-> closes[i], volume |-> 100]]

\* What a fetch can deliver: the provider's data changes between two fetches.
StockSeries == {DailyBars(<<1, 3, 1>>), DailyBars(<<3, 1, 3>>)}

CryptoSeries == {DailyBars(<<1, 3, 3>>), DailyBars(<<3, 3, 1>>)}

CryptoIndexSeries ==
    {DailyBars(<<CryptoScale, 3 * CryptoScale, 3 * CryptoScale>>),
     DailyBars(<<3 * CryptoScale, CryptoScale, 3 * CryptoScale>>)}

\* cache[key] = series
Put(cache, key, series) ==
    [k \in DOMAIN cache \cup {key} |-> IF k = key THEN series ELSE cache[k]]

\* Mutant: only a missing key is fetched, the refresh button is ignored.
FetchOnMissOnly(key, cache, trigger_id) == key \notin DOMAIN cache

\* symbol not in CACHE or trigger_id == "refresh-button"
FetchByTrigger(key, cache, trigger_id) ==
    key \notin DOMAIN cache \/ trigger_id = RefreshButton

\* crypto_symbol not in CRYPTO_DATA or n_clicks > 0
FetchByClicks(key, cache, clicks) == key \notin DOMAIN cache \/ clicks > 0

\* The cache after `if <fetch>: CACHE[key] = fetcher.get(...)`.
Cached(cache, key, fetch, series) ==
    IF fetch THEN Put(cache, key, series) ELSE cache

\* The series a fetch can put into the cache: nothing is drawn without a fetch.
Fetchable(fetch, delivered) == IF fetch THEN delivered ELSE {<<>>}

\* The keys a callback fetched, tagged with their cache.
FetchedKeys(cache_name, key, fetch) == IF fetch THEN {<<cache_name, key>>} ELSE {}

\* f"{x:.2f}": the decimal with two places nearest to x ("nan" for nan).
Format2(x) == Round2(x)

\* The record of a finished callback invocation.
Invocation(callback, trigger_id, given, fetched, outputs) ==
    [status |-> "returned",
     value |-> [callback |-> callback, trigger |-> trigger_id, given |-> given,
                fetched |-> fetched, outputs |-> outputs]]

\* An invocation the refresh button triggers follows a click; the invocation
\* of the page load (no trigger) sees the layout's n_clicks = 0.
Triggerable(trigger_id) ==
    /\ trigger_id = RefreshButton => n_clicks > 0
    /\ trigger_id = "" => n_clicks = 0

InitDashboard ==
    /\ feed = "dashboard"
    /\ InitFrames

\* A click of the refresh button.
ClickRefresh ==
    /\ feed = "dashboard"
    /\ n_clicks < MaxClicks
    /\ n_clicks' = n_clicks + 1
    /\ UNCHANGED <<feed, df1, df2, op, result, STOCK_DATA, CRYPTO_DATA, INDEX_DATA,
                   fetching, generators>>

UpdateStockData ==
    /\ feed = "dashboard"
    /\ \E symbol \in StockSymbols, trigger_id \in {"", "stock-dropdown", RefreshButton} :
        LET fetch == FetchByTrigger(symbol, STOCK_DATA, trigger_id)
        IN  \E fetched \in Fetchable(fetch, StockSeries) :
            /\ Triggerable(trigger_id)
            /\ STOCK_DATA' = Cached(STOCK_DATA, symbol, fetch, fetched)
            /\ op' = "update_stock_data"
            /\ result' = Invocation("update_stock_data", trigger_id,
                                    {<<"STOCK_DATA", symbol>>},
                                    FetchedKeys("STOCK_DATA", symbol, fetch),
                                    calculate_metrics(STOCK_DATA'[symbol]))
    /\ UNCHANGED <<feed, df1, df2, CRYPTO_DATA, INDEX_DATA, n_clicks, fetching, generators>>

UpdateCryptoData ==
    /\ feed = "dashboard"
    /\ \E symbol \in CryptoSymbols, trigger_id \in {"", "crypto-dropdown", RefreshButton} :
        LET fetch == FetchByTrigger(symbol, CRYPTO_DATA, trigger_id)
        IN  \E fetched \in Fetchable(fetch, CryptoSeries) :
            /\ Triggerable(trigger_id)
            /\ CRYPTO_DATA' = Cached(CRYPTO_DATA, symbol, fetch, fetched)
            /\ op' = "update_crypto_data"
            /\ result' = Invocation("update_crypto_data", trigger_id,
                                    {<<"CRYPTO_DATA", symbol>>},
                                    FetchedKeys("CRYPTO_DATA", symbol, fetch),
                                    calculate_metrics(CRYPTO_DATA'[symbol]))
    /\ UNCHANGED <<feed, df1, df2, STOCK_DATA, INDEX_DATA, n_clicks, fetching, generators>>

\* The outputs of update_comparison_metrics outside the comparison tab.
HiddenComparison ==
    [display |-> "none", correlation |-> "0.00", rel_performance |-> "0.00%",
     volatility_ratio |-> "0.00"]

\* The outputs of update_comparison_metrics in the comparison tab.
ShownComparison(stock_data, crypto_data) ==
    LET comparison == compare_assets(stock_data, crypto_data).value
    IN  [display |-> "block",
         correlation |-> Format2(comparison.correlation),
         rel_performance |-> Format2(comparison.relative_performance),
         volatility_ratio |-> Format2(comparison.volatility_ratio)]

UpdateComparisonMetrics ==
    /\ feed = "dashboard"
    /\ \E active_tab \in {"stocks", "comparison"},
          stock_symbol \in StockSymbols, crypto_symbol \in CryptoSymbols,
          trigger_id \in {"", "tabs", "stock-dropdown", "crypto-dropdown", RefreshButton} :
        LET given == {<<"STOCK_DATA", stock_symbol>>, <<"CRYPTO_DATA", crypto_symbol>>}
            shown == active_tab = "comparison"
            fetch_stock == shown /\ FetchByTrigger(stock_symbol, STOCK_DATA, trigger_id)
            fetch_crypto == shown /\ FetchByTrigger(crypto_symbol, CRYPTO_DATA, trigger_id)
        IN  \E fetched_stock \in Fetchable(fetch_stock, StockSeries),
               fetched_crypto \in Fetchable(fetch_crypto, CryptoSeries) :
            /\ Triggerable(trigger_id)
            /\ op' = "update_comparison_metrics"
            /\ IF ~shown
               THEN /\ UNCHANGED <<STOCK_DATA, CRYPTO_DATA>>
                    /\ result' = Invocation("update_comparison_metrics", trigger_id,
                                            given, {}, HiddenComparison)
               ELSE /\ STOCK_DATA' = Cached(STOCK_DATA, stock_symbol, fetch_stock,
                                            fetched_stock)
                    /\ CRYPTO_DATA' = Cached(CRYPTO_DATA, crypto_symbol, fetch_crypto,
                                             fetched_crypto)
                    /\ result' = Invocation("update_comparison_metrics", trigger_id,
                                            given,
                                            FetchedKeys("STOCK_DATA", stock_symbol,
                                                        fetch_stock)
                                            \cup FetchedKeys("CRYPTO_DATA", crypto_symbol,
                                                             fetch_crypto),
                                            ShownComparison(STOCK_DATA'[stock_symbol],
                                                            CRYPTO_DATA'[crypto_symbol]))
    /\ UNCHANGED <<feed, df1, df2, INDEX_DATA, n_clicks, fetching, generators>>

\* The statistics update_stock_index_comparison shows.
ShownIndexComparison(stock_data, index_data) ==
    LET comparison == compare_stock_to_index(stock_data, index_data).value
    IN  [correlation |-> Format2(comparison.correlation),
         alpha |-> Format2(comparison.alpha),
         beta |-> Format2(comparison.beta)]

UpdateStockIndexComparison ==
    /\ feed = "dashboard"
    /\ \E stock_symbol \in StockSymbols, index_symbol \in IndexSymbols,
          trigger_id \in {"", "stock-tab-comparison-dropdown", "index-dropdown",
                          RefreshButton} :
        LET fetch_stock == FetchByTrigger(stock_symbol, STOCK_DATA, trigger_id)
            fetch_index == FetchByTrigger(index_symbol, INDEX_DATA, trigger_id)
        IN  \E fetched_stock \in Fetchable(fetch_stock, StockSeries),
               fetched_index \in Fetchable(fetch_index, StockSeries) :
            /\ Triggerable(trigger_id)
            /\ STOCK_DATA' = Cached(STOCK_DATA, stock_symbol, fetch_stock, fetched_stock)
            /\ INDEX_DATA' = Cached(INDEX_DATA, index_symbol, fetch_index, fetched_index)
            /\ op' = "update_stock_index_comparison"
            /\ result' = Invocation("update_stock_index_comparison", trigger_id,
                                    {<<"STOCK_DATA", stock_symbol>>,
                                     <<"INDEX_DATA", index_symbol>>},
                                    FetchedKeys("STOCK_DATA", stock_symbol, fetch_stock)
                                    \cup FetchedKeys("INDEX_DATA", index_symbol,
                                                     fetch_index),
                                    ShownIndexComparison(STOCK_DATA'[stock_symbol],
                                                         INDEX_DATA'[index_symbol]))
    /\ UNCHANGED <<feed, df1, df2, CRYPTO_DATA, n_clicks, fetching, generators>>

\* The statistics update_crypto_index_comparison shows: the value labelled
\* alpha is the relative_performance of compare_assets.
ShownCryptoIndexComparison(crypto_data, index_data) ==
    LET comparison == compare_assets(crypto_data, index_data).value
        relative_performance == comparison.relative_performance
    IN  [correlation |-> Format2(comparison.correlation),
         alpha |-> Format2(relative_performance)]

UpdateCryptoIndexComparison ==
    /\ feed = "dashboard"
    /\ \E crypto_symbol \in CryptoSymbols, index_symbol \in CryptoIndexSymbols,
          trigger_id \in {"", "crypto-comparison-dropdown", "crypto-index-dropdown",
                          RefreshButton} :
        LET index_key == IndexKey(index_symbol)
            fetch_crypto == FetchByClicks(crypto_symbol, CRYPTO_DATA, n_clicks)
            fetch_index == FetchByClicks(index_key, CRYPTO_DATA, n_clicks)
        IN  \E fetched_crypto \in Fetchable(fetch_crypto, CryptoSeries),
               fetched_index \in Fetchable(fetch_index, CryptoIndexSeries) :
            /\ Triggerable(trigger_id)
            /\ CRYPTO_DATA' = Cached(Cached(CRYPTO_DATA, crypto_symbol, fetch_crypto,
                                            fetched_crypto),
                                     index_key, fetch_index, fetched_index)
            /\ op' = "update_crypto_index_comparison"
            /\ result' = Invocation("update_crypto_index_comparison", trigger_id,
                                    {<<"CRYPTO_DATA", crypto_symbol>>,
                                     <<"CRYPTO_DATA", index_key>>},
                                    FetchedKeys("CRYPTO_DATA", crypto_symbol, fetch_crypto)
                                    \cup FetchedKeys("CRYPTO_DATA", index_key, fetch_index),
                                    ShownCryptoIndexComparison(CRYPTO_DATA'[crypto_symbol],
                                                               CRYPTO_DATA'[index_key]))
    /\ UNCHANGED <<feed, df1, df2, STOCK_DATA, INDEX_DATA, n_clicks, fetching, generators>>

NextDashboard ==
    \/ ClickRefresh
    \/ UpdateStockData
    \/ UpdateCryptoData
    \/ UpdateComparisonMetrics
    \/ UpdateStockIndexComparison
    \/ UpdateCryptoIndexComparison

\* The callbacks of the dashboard over the caches.
SpecDashboard == InitDashboard /\ [][NextDashboard]_vars


(***************************************************************************)
(* Mock data generators (stock_fetcher.py, crypto_fetcher.py).  A          *)
(* generation seeds the process-wide generator np.random and then draws    *)
(* from it call by call: the trend values first, then four values per row. *)
(* Prices are integers and a price moves by the sum of the drawn changes;  *)
(* values of an index series are in millions of USD.                       *)
(***************************************************************************)
\* np.random: the value at position k = 0, 1, ... of the stream that
\* np.random.seed(seed) starts.
Stream(seed, k) == (seed + 3 * k) % 5

\* The state of the generator after np.random.seed(seed).
Seeded(seed) == [seed |-> seed, drawn |-> 0]

\* The values one call draws in the generator state g, and the state it leaves.
Drawn(g, count) == [j \in 1..count |-> Stream(g.seed, g.drawn + j - 1)]

AfterDraw(g, count) == [g EXCEPT !.drawn = @ + count]

\* seed = 42
StockSeed == 42

\* hash(symbol) % 1000: the hash of a str is fixed within a process.
HashSeed(symbol) ==
    CASE symbol = "BTC" -> 811
      [] symbol = "ETH" -> 322
      [] symbol = "TOTAL" -> 633
      [] OTHER -> 144

GeneratorKinds == {"stock", "crypto", "crypto_index"}

SeedOf(kind, symbol) == IF kind = "stock" THEN StockSeed ELSE HashSeed(symbol)

\* base_prices.get(symbol, 100.0), base_values.get(symbol, 100) and the
\* base_values of the indexes (in millions).
BaseValue(kind, symbol) ==
    CASE kind = "stock" /\ symbol = "AAPL" -> 180
      [] kind = "stock" /\ symbol = "SPY" -> 500
      [] kind = "stock" -> 100
      [] kind = "crypto" /\ symbol = "BTC" -> 60000
      [] kind = "crypto" /\ symbol = "ETH" -> 3000
      [] kind = "crypto" -> 100
      [] kind = "crypto_index" /\ symbol = "TOTAL" -> 2500000
      [] OTHER -> 50000

\* end_date = datetime(2025, 4, 1), a Tuesday, as a day number.
MockEndDay == 3

\* date.weekday() < 5
IsWeekday(day) == (day + 5) % 7 < 5

\* [end_date - timedelta(days=i) for i in range(days)], reversed; the stock
\* generator keeps the weekdays only.
MockDates(kind, days) ==
    LET all == [i \in 1..days |-> MockEndDay - days + i]
    IN  IF kind = "stock" THEN SelectSeq(all, IsWeekday) ELSE all

\* The calls a generation makes to np.random after seeding, as the number of
\* values each call draws, for n dates.
DrawCalls(kind, n) ==
    (IF kind = "stock" THEN <<n, 1, n>> ELSE <<n>>) \o [i \in 1..(4 * n) |-> 1]

RECURSIVE SumTo(_, _)
SumTo(values, i) == IF i = 0 THEN 0 ELSE values[i] + SumTo(values, i - 1)

\* The change of the price on row i: np.cumsum of the market trend, for a stock
\* combined with the symbol's own change around its momentum.
Change(kind, values, n, i) ==
    IF kind = "stock"
    THEN SumTo(values, i) + values[n + 1] + values[n + 1 + i]
    ELSE SumTo(values, i)

RECURSIVE Price(_, _, _, _, _)
Price(kind, symbol, values, n, i) ==
    IF i = 0 THEN BaseValue(kind, symbol)
    ELSE Price(kind, symbol, values, n, i - 1) + Change(kind, values, n, i)

\* The DataFrame a generation returns from the values it drew, in call order.
MockFrame(kind, symbol, dates, values) ==
    LET n == Len(dates)
        rows == IF kind = "stock" THEN 2 * n + 1 ELSE n
    IN  [i \in 1..n |->
            LET close == Price(kind, symbol, values, n, i)
                at == rows + 4 * (i - 1)
                high == close + values[at + 1]
                low == close - values[at + 2]
            IN  [date |-> <<"str", dates[i]>>,
                 open |-> low + (values[at + 3] % (high - low + 1)),
                 high |-> high, low |-> low, close |-> close,
                 volume |-> values[at + 4]]]

\* The number of values the calls draw.
RECURSIVE TotalDrawn(_)
TotalDrawn(calls) == IF Len(calls) = 0 THEN 0 ELSE calls[1] + TotalDrawn(Tail(calls))

\* A generation that runs alone: every value comes from its own seed, in order.
MockData(kind, symbol, days) ==
    LET dates == MockDates(kind, days)
        values == Drawn(Seeded(SeedOf(kind, symbol)),
                        TotalDrawn(DrawCalls(kind, Len(dates))))
    IN  MockFrame(kind, symbol, dates, values)

generate_mock_stock_data(symbol, days) == MockData("stock", symbol, days)

generate_mock_crypto_data(symbol, days) == MockData("crypto", symbol, days)

generate_mock_crypto_index_data(index_symbol, days) ==
    MockData("crypto_index", index_symbol, days)

(***************************************************************************)
(* State machine of the generations: the callbacks of the dashboard are    *)
(* served by threads, so two generations can run at once.  A call to       *)
(* np.random is atomic; the threads interleave between calls.              *)
(***************************************************************************)
Threads == {"t1", "t2"}

\* What the two threads generate.
Generations ==
    {<<"stock", "AAPL">>, <<"stock", "SPY">>, <<"crypto", "BTC">>,
     <<"crypto_index", "TOTAL">>}

\* Bound: the days a generation is asked for.
MaxMockDays == 1

Idle == [pc |-> "idle"]

InitGenerations ==
    /\ feed = "generators"
    /\ df1 = <<>>
    /\ df2 = <<>>
    /\ op = "none"
    /\ result = NoResult
    /\ InitCaches
    /\ InitFetching
    /\ rng = Seeded(0)
    /\ gen = [t \in Threads |-> Idle]

\* A thread enters a generator: the dates are computed.
StartGeneration(t) ==
    /\ feed = "generators"
    /\ gen[t].pc = "idle"
    /\ \E g \in Generations, days \in 1..MaxMockDays :
        gen' = [gen EXCEPT ![t] = [pc |-> "seed", kind |-> g[1], symbol |-> g[2],
                                   days |-> days, values |-> <<>>, calls |-> 0]]
    /\ UNCHANGED <<feed, df1, df2, op, result, caches, fetching, rng>>

\* np.random.seed(seed)
SeedGenerator(t) ==
    /\ feed = "generators"
    /\ gen[t].pc = "seed"
    /\ rng' = Seeded(SeedOf(gen[t].kind, gen[t].symbol))
    /\ gen' = [gen EXCEPT ![t].pc = "draw"]
    /\ UNCHANGED <<feed, df1, df2, op, result, caches, fetching>>

\* The calls of the generation thread t runs.
CallsOf(t) == DrawCalls(gen[t].kind, Len(MockDates(gen[t].kind, gen[t].days)))

\* The next call to np.random.normal / randn / uniform.
DrawValues(t) ==
    /\ feed = "generators"
    /\ gen[t].pc = "draw"
    /\ gen[t].calls < Len(CallsOf(t))
    /\ LET count == CallsOf(t)[gen[t].calls + 1]
       IN  /\ gen' = [gen EXCEPT ![t].values = @ \o Drawn(rng, count),
                                 ![t].calls = @ + 1]
           /\ rng' = AfterDraw(rng, count)
    /\ UNCHANGED <<feed, df1, df2, op, result, caches, fetching>>

\* return pd.DataFrame(data)
ReturnFrame(t) ==
    /\ feed = "generators"
    /\ gen[t].pc = "draw"
    /\ gen[t].calls = Len(CallsOf(t))
    /\ gen' = [gen EXCEPT ![t] =
                   [pc |-> "done", kind |-> gen[t].kind, symbol |-> gen[t].symbol,
                    days |-> gen[t].days,
                    frame |-> MockFrame(gen[t].kind, gen[t].symbol,
                                        MockDates(gen[t].kind, gen[t].days),
                                        gen[t].values)]]
    /\ UNCHANGED <<feed, df1, df2, op, result, caches, fetching, rng>>

NextGenerations ==
    \E t \in Threads :
        \/ StartGeneration(t)
        \/ SeedGenerator(t)
        \/ DrawValues(t)
        \/ ReturnFrame(t)

\* Two threads generating mock series.
SpecGenerations == InitGenerations /\ [][NextGenerations]_vars


(***************************************************************************)
(* Fetching layer (stock_fetcher.py, crypto_fetcher.py, data_fetcher.py).  *)
(* A provider answers a request in one of four ways: the request or the    *)
(* decoding raises, the response has an error status and no data, the      *)
(* response is well-formed but lacks the data, or it carries a list of     *)
(* entries, in whatever order and with whatever days the provider sends.   *)
(***************************************************************************)
\* Bound: the entries of a response.
MaxItems == 2

ItemDays == {1, 2}

ItemCloses == {0, 3}

Items == [day : ItemDays, close : ItemCloses]

ItemLists == UNION {[1..n -> Items] : n \in 0..MaxItems}

Responses ==
    {[kind |-> k] : k \in {"raises", "status", "no_data"}}
        \cup {[kind |-> "data", items |-> items] : items \in ItemLists}

\* pd.to_datetime(..).dt.strftime('%Y-%m-%d') and
\* datetime.fromtimestamp(..).strftime('%Y-%m-%d') of an entry's day.
DateString(day) == StrfTime(<<"datetime", day>>)

\* The row of an entry: the entry's prices are all its close.
RowOf(item) ==
    [date |-> DateString(item.day), open |-> item.close, high |-> item.close,
     low |-> item.close, close |-> item.close, volume |-> 0]

RowsOf(items) == [i \in 1..Len(items) |-> RowOf(items[i])]

RECURSIVE InsertByDate(_, _)
InsertByDate(sorted, row) ==
    IF Len(sorted) = 0 THEN <<row>>
    ELSE IF sorted[Len(sorted)].date[2] <= row.date[2] THEN Append(sorted, row)
    ELSE Append(InsertByDate(SubSeq(sorted, 1, Len(sorted) - 1), row),
                sorted[Len(sorted)])

\* df.sort_values('date'): rows of equal date keep their order (the sort of a
\* short column is an insertion sort); no row is dropped.
RECURSIVE SortValues(_)
SortValues(df) ==
    IF Len(df) = 0 THEN <<>>
    ELSE InsertByDate(SortValues(SubSeq(df, 1, Len(df) - 1)), df[Len(df)])

\* What a getter hands back: the frame, the requests it issued, and the
\* responses it consumed, each with the request it answers.
Fetched(frame, responses) ==
    [frame |-> frame, requests |-> Len(responses), responses |-> responses]

\* Mutant: the fallback generates the series of the default symbol.
StockFallbackForDefault(symbol, days) == generate_mock_stock_data("AAPL", days)

\* return self._generate_mock_stock_data(symbol, days)
StockFallback(symbol, days) == generate_mock_stock_data(symbol, days)

\* StockDataFetcher.get_stock_data: an empty 'historical' list gives a frame
\* without a date column, df['date'] raises KeyError and the except falls back.
get_stock_data(mock, symbol, days, response) ==
    IF mock THEN Fetched(generate_mock_stock_data(symbol, days), <<>>)
    ELSE IF response.kind # "data" THEN Fetched(StockFallback(symbol, days), <<<<"historical", response>>>>)
    ELSE IF Len(response.items) = 0
         THEN Fetched(StockFallback(symbol, days), <<<<"historical", response>>>>)
    ELSE Fetched(SortValues(RowsOf(response.items)), <<<<"historical", response>>>>)

\* if item['open'] == 0 or item['close'] == 0: continue
Priced(item) == item.close # 0

\* return self._generate_mock_crypto_data(symbol, days)
CryptoFallback(symbol, days) == generate_mock_crypto_data(symbol, days)

\* CryptoDataFetcher.get_crypto_data: raise_for_status raises on an error
\* status; when every entry is skipped the frame has no date column,
\* sort_values raises KeyError and the except falls back.
get_crypto_data(mock, symbol, days, response) ==
    IF mock THEN Fetched(generate_mock_crypto_data(symbol, days), <<>>)
    ELSE IF response.kind # "data" THEN Fetched(CryptoFallback(symbol, days), <<<<"histoday", response>>>>)
    ELSE LET processed_data == SelectSeq(response.items, Priced)
         IN  IF Len(processed_data) = 0
             THEN Fetched(CryptoFallback(symbol, days), <<<<"histoday", response>>>>)
             ELSE Fetched(SortValues(RowsOf(processed_data)), <<<<"histoday", response>>>>)

\* btc_data[col] * scaling_factor * 1000000000, in millions.
ProxyScale == 2500

ScaledProxy(btc_data) ==
    [i \in 1..Len(btc_data) |->
        [btc_data[i] EXCEPT !.open = @ * ProxyScale, !.high = @ * ProxyScale,
                            !.low = @ * ProxyScale, !.close = @ * ProxyScale]]

\* The market capitalisations /top/totalvolfull reports for the top coins.
TopMarketCaps == <<20, 10>>

TopResponses ==
    {[kind |-> k] : k \in {"raises", "status", "no_data"}}
        \cup {[kind |-> "data", items |-> TopMarketCaps]}

\* The rows scaled to the total market cap: item['close'] * total_mcap /
\* (item['close'] * 10) for the close.
ScaledToMarketCap(btc_history, total_mcap) ==
    LET kept == SelectSeq(btc_history, Priced)
    IN  [i \in 1..Len(kept) |->
            [RowOf(kept[i]) EXCEPT !.open = total_mcap \div 10,
                                   !.high = total_mcap \div 10,
                                   !.low = total_mcap \div 10,
                                   !.close = total_mcap \div 10]]

\* return self._generate_mock_crypto_index_data(index_symbol, days)
IndexFallback(index_symbol, days) == generate_mock_crypto_index_data(index_symbol, days)

\* The fallback of get_crypto_index_data after the index requests gave no
\* data: BTC as a proxy, fetched through get_crypto_data.
ProxyPath(index_symbol, days, consumed, btc) ==
    LET btc_data == get_crypto_data(FALSE, "BTC", days, btc)
    IN  IF ~Empty(btc_data.frame)
        THEN Fetched(ScaledProxy(btc_data.frame), consumed \o <<<<"proxy", btc>>>>)
        ELSE Fetched(IndexFallback(index_symbol, days), consumed \o <<<<"proxy", btc>>>>)

\* The alternative approach for TOTAL and CCCAGG: BTC history scaled to the
\* total market cap of the top list.
AlternativePath(index_symbol, days, consumed, alt, top, btc) ==
    IF index_symbol \notin {"TOTAL", "CCCAGG"}
    THEN ProxyPath(index_symbol, days, consumed, btc)
    ELSE IF alt.kind = "raises"
         THEN Fetched(IndexFallback(index_symbol, days), consumed \o <<<<"alt histoday", alt>>>>)
    ELSE IF alt.kind # "data" THEN ProxyPath(index_symbol, days, consumed \o <<<<"alt histoday", alt>>>>, btc)
    ELSE IF Len(alt.items) = 0
         THEN ProxyPath(index_symbol, days, consumed \o <<<<"alt histoday", alt>>>>, btc)
    ELSE IF top.kind = "raises"
         THEN Fetched(IndexFallback(index_symbol, days), consumed \o <<<<"alt histoday", alt>>, <<"top list", top>>>>)
    ELSE IF top.kind # "data"
         THEN ProxyPath(index_symbol, days, consumed \o <<<<"alt histoday", alt>>, <<"top list", top>>>>, btc)
    ELSE LET total_mcap == SumTo(top.items, Len(top.items))
             df == ScaledToMarketCap(alt.items, total_mcap)
         IN  IF ~Empty(df) THEN Fetched(SortValues(df), consumed \o <<<<"alt histoday", alt>>, <<"top list", top>>>>)
             ELSE ProxyPath(index_symbol, days, consumed \o <<<<"alt histoday", alt>>, <<"top list", top>>>>, btc)

\* CryptoDataFetcher.get_crypto_index_data: the index request (skipped for
\* TOTAL), then the alternative approach, then the BTC proxy; the mock index
\* series only when a request raises or the proxy is empty.  The synthetic
\* open, high and low within 1% of an index value are taken at the value.
get_crypto_index_data(mock, index_symbol, days, direct, alt, top, btc) ==
    IF mock THEN Fetched(generate_mock_crypto_index_data(index_symbol, days), <<>>)
    ELSE IF index_symbol = "TOTAL"
         THEN AlternativePath(index_symbol, days, <<>>, alt, top, btc)
    ELSE IF direct.kind = "raises"
         THEN Fetched(IndexFallback(index_symbol, days), <<<<"index", direct>>>>)
    ELSE IF direct.kind # "data"
         THEN AlternativePath(index_symbol, days, <<<<"index", direct>>>>, alt, top, btc)
    ELSE IF Len(direct.items) = 0
         THEN AlternativePath(index_symbol, days, <<<<"index", direct>>>>, alt, top, btc)
    ELSE Fetched(SortValues(RowsOf(direct.items)), <<<<"index", direct>>>>)


(***************************************************************************)
(* State machine of the fetching layer: one public method of a fetcher is  *)
(* called, in mock or in live mode.  http_requests counts the requests the *)
(* call issues, answered or not.                                           *)
(***************************************************************************)
FetchedStocks == {"AAPL", "SPY"}

FetchedCryptos == {"BTC", "ETH"}

FetchedIndexes == {"TOTAL", "CCCAGG", "CCMVDA"}

\* The days a caller asks for.
RequestedDays == {1, 3}

\* The record of a finished getter call.
Handed(method, symbol, days, out) ==
    [status |-> "returned", value |-> out.frame,
     call |-> [method |-> method, symbol |-> symbol, days |-> days],
     responses |-> out.responses]

\* A response is drawn only for a request the call issues: a request that is
\* not answered yet stands in the call's responses when it is issued.
Unasked(request) == [kind |-> "unasked", request |-> request]

Issues(out, request) ==
    \E i \in 1..Len(out.responses) : out.responses[i] = <<request, Unasked(request)>>

AnswersTo(out, request, responses) ==
    IF Issues(out, request) THEN responses ELSE {Unasked(request)}

\* No response is drawn in mock mode.
Answering(responses) == IF use_mock_data THEN {Unasked("top list")} ELSE responses

InitFetchers ==
    /\ feed = "fetchers"
    /\ df1 = <<>>
    /\ df2 = <<>>
    /\ op = "none"
    /\ result = NoResult
    /\ InitCaches
    /\ use_mock_data \in BOOLEAN
    /\ http_requests = 0
    /\ depth = 0
    /\ InitGenerators

GetStockData ==
    /\ feed = "fetchers"
    /\ op = "none"
    /\ \E symbol \in FetchedStocks, days \in RequestedDays :
        \E response \in AnswersTo(get_stock_data(use_mock_data, symbol, days,
                                                 Unasked("historical")),
                                  "historical", Responses) :
        LET out == get_stock_data(use_mock_data, symbol, days, response)
        IN  /\ op' = "get_stock_data"
            /\ result' = Handed("get_stock_data", symbol, days, out)
            /\ http_requests' = out.requests
    /\ UNCHANGED <<feed, df1, df2, caches, use_mock_data, depth, generators>>

GetCryptoData ==
    /\ feed = "fetchers"
    /\ op = "none"
    /\ \E symbol \in FetchedCryptos, days \in RequestedDays :
        \E response \in AnswersTo(get_crypto_data(use_mock_data, symbol, days,
                                                  Unasked("histoday")),
                                  "histoday", Responses) :
        LET out == get_crypto_data(use_mock_data, symbol, days, response)
        IN  /\ op' = "get_crypto_data"
            /\ result' = Handed("get_crypto_data", symbol, days, out)
            /\ http_requests' = out.requests
    /\ UNCHANGED <<feed, df1, df2, caches, use_mock_data, depth, generators>>

GetCryptoIndexData ==
    /\ feed = "fetchers"
    /\ op = "none"
    /\ \E index_symbol \in FetchedIndexes, days \in RequestedDays :
        LET call(direct, alt, top, btc) ==
                get_crypto_index_data(use_mock_data, index_symbol, days,
                                      direct, alt, top, btc)
            d0 == Unasked("index")
            a0 == Unasked("alt histoday")
            t0 == Unasked("top list")
            b0 == Unasked("proxy")
        IN  \E direct \in AnswersTo(call(d0, a0, t0, b0), "index", Responses) :
            \E alt \in AnswersTo(call(direct, a0, t0, b0), "alt histoday", Responses) :
            \E top \in AnswersTo(call(direct, alt, t0, b0), "top list", TopResponses) :
            \E btc \in AnswersTo(call(direct, alt, top, b0), "proxy", Responses) :
        LET out == call(direct, alt, top, btc)
        IN  /\ op' = "get_crypto_index_data"
            /\ result' = Handed("get_crypto_index_data", index_symbol, days, out)
            /\ http_requests' = out.requests
    /\ UNCHANGED <<feed, df1, df2, caches, use_mock_data, depth, generators>>

\* The other public methods: whether the method tests use_mock_data before
\* anything else, the requests its live path can issue, and whether an
\* exception of a request is caught.
Method(module, class, method, guarded, requests, catches) ==
    [module |-> module, class |-> class, method |-> method, guarded |-> guarded,
     requests |-> requests, catches |-> catches]

OtherMethods ==
    {Method("stock_fetcher", "StockDataFetcher", "get_remaining_calls", TRUE, {1}, TRUE),
     Method("stock_fetcher", "StockDataFetcher", "get_stock_quote", TRUE, {1}, TRUE),
     Method("stock_fetcher", "StockDataFetcher", "get_available_stocks", TRUE, {1}, TRUE),
     Method("crypto_fetcher", "CryptoDataFetcher", "get_remaining_calls", TRUE, {1}, TRUE),
     Method("crypto_fetcher", "CryptoDataFetcher", "get_crypto_quote", TRUE, {1, 2}, TRUE),
     Method("crypto_fetcher", "CryptoDataFetcher", "get_available_crypto_indexes",
            FALSE, {0}, TRUE),
     Method("data_fetcher", "StockDataFetcher", "get_remaining_calls", TRUE, {1}, TRUE),
     Method("data_fetcher", "StockDataFetcher", "get_stock_data", TRUE, {1}, TRUE),
     Method("data_fetcher", "StockDataFetcher", "get_stock_quote", TRUE, {1}, TRUE),
     Method("data_fetcher", "StockDataFetcher", "get_available_stocks", FALSE, {1}, FALSE),
     Method("data_fetcher", "CryptoDataFetcher", "get_remaining_calls", TRUE, {1}, TRUE),
     Method("data_fetcher", "CryptoDataFetcher", "get_crypto_data", TRUE, {1, 2}, TRUE),
     Method("data_fetcher", "CryptoDataFetcher", "get_crypto_quote", TRUE, {1}, TRUE),
     Method("data_fetcher", "CryptoDataFetcher", "get_available_cryptos", FALSE, {1}, TRUE)}

\* The requests a call of m issues.
RequestsOf(m) == IF use_mock_data /\ m.guarded THEN {0} ELSE m.requests

\* How a call of m that issued n requests can end.
EndingsOf(m, n) == IF n > 0 /\ ~m.catches THEN {"returned", "raised"} ELSE {"returned"}

CallOtherMethod ==
    /\ feed = "fetchers"
    /\ op = "none"
    /\ \E m \in OtherMethods :
        \E n \in RequestsOf(m) :
            \E ending \in EndingsOf(m, n) :
                /\ op' = m.module \o "." \o m.class \o "." \o m.method
                /\ result' = [status |-> ending,
                              call |-> [module |-> m.module, class |-> m.class,
                                        method |-> m.method]]
                /\ http_requests' = n
    /\ UNCHANGED <<feed, df1, df2, caches, use_mock_data, depth, generators>>

(***************************************************************************)
(* CryptoDataFetcher.get_available_cryptos of crypto_fetcher.py, frame by  *)
(* frame: the except branch calls the method again.                        *)
(***************************************************************************)
\* Bound: the nested calls the interpreter's stack holds.
MaxDepth == 3

Crypto(symbol, name) == [symbol |-> symbol, name |-> name]

popular_cryptos ==
    <<Crypto("BTC", "Bitcoin"), Crypto("ETH", "Ethereum"),
      Crypto("BNB", "Binance Coin"), Crypto("SOL", "Solana"), Crypto("XRP", "XRP"),
      Crypto("ADA", "Cardano"), Crypto("DOGE", "Dogecoin"), Crypto("DOT", "Polkadot"),
      Crypto("AVAX", "Avalanche"), Crypto("SHIB", "Shiba Inu")>>

\* The entries of /top/mktcapfull: CoinInfo with Name and FullName; "" stands
\* for an entry without a Name.
CoinNames == {"BTC", "SHIB", "LINK", ""}

CoinInfo(name) == [Name |-> name, FullName |-> name \o " (" \o name \o ")"]

CoinLists == UNION {[1..n -> {CoinInfo(c) : c \in CoinNames}] : n \in 0..MaxItems}

TopListResponses ==
    {[kind |-> k] : k \in {"raises", "status", "no_data"}}
        \cup {[kind |-> "data", items |-> items] : items \in CoinLists}

Named(coin_info) == coin_info.Name # ""

\* The entries taken from the API response, in its order.
ApiCryptos(items) ==
    LET named == SelectSeq(items, Named)
    IN  [i \in 1..Len(named) |-> Crypto(named[i].Name, named[i].FullName)]

SymbolsOf(cryptos) == {cryptos[i].symbol : i \in 1..Len(cryptos)}

\* Mutant: every popular entry is appended, whatever the API listed.
AppendEveryPopular(cryptos) == cryptos \o popular_cryptos

\* for crypto in popular_cryptos: if crypto['symbol'] not in api_symbols: append
AppendMissingPopular(cryptos) ==
    LET api_symbols == SymbolsOf(cryptos)
        missing(crypto) == crypto.symbol \notin api_symbols
    IN  cryptos \o SelectSeq(popular_cryptos, missing)

\* The record of a finished get_available_cryptos call.
Listed(cryptos, responses) ==
    [status |-> "returned", value |-> cryptos, responses |-> responses]

\* The caller enters get_available_cryptos.
CallGetAvailableCryptos ==
    /\ feed = "fetchers"
    /\ op = "none"
    /\ op' = "get_available_cryptos"
    /\ depth' = 1
    /\ UNCHANGED <<feed, df1, df2, result, caches, use_mock_data, http_requests, generators>>

\* The innermost frame runs its body: in live mode one request, and on an
\* exception the nested call, or RecursionError when the stack is full; a list
\* returned by a nested call is returned by every frame above it.
RunGetAvailableCryptos ==
    /\ feed = "fetchers"
    /\ op = "get_available_cryptos"
    /\ depth > 0
    /\ \E response \in Answering(TopListResponses) :
        IF use_mock_data
        THEN /\ result' = Listed(popular_cryptos, <<>>)
             /\ depth' = 0
             /\ UNCHANGED http_requests
        ELSE /\ http_requests' = http_requests + 1
             /\ CASE response.kind \in {"raises", "status"} /\ depth < MaxDepth ->
                        /\ depth' = depth + 1
                        /\ UNCHANGED result
                  [] response.kind \in {"raises", "status"} /\ depth >= MaxDepth ->
                        /\ depth' = 0
                        /\ result' = [status |-> "raised", exc |-> "RecursionError",
                                      responses |-> <<response>>]
                  [] response.kind = "no_data" ->
                        /\ depth' = 0
                        /\ result' = Listed(popular_cryptos, <<response>>)
                  [] OTHER ->
                        /\ depth' = 0
                        /\ result' =
                               IF Len(response.items) = 0
                               THEN Listed(popular_cryptos, <<response>>)
                               ELSE Listed(AppendMissingPopular(ApiCryptos(response.items)),
                                           <<response>>)
    /\ UNCHANGED <<feed, df1, df2, op, caches, use_mock_data, generators>>

NextFetchers ==
    \/ GetStockData
    \/ GetCryptoData
    \/ GetCryptoIndexData
    \/ CallOtherMethod
    \/ CallGetAvailableCryptos
    \/ RunGetAvailableCryptos

\* The public methods of the fetchers, in mock and in live mode.
SpecFetchers == InitFetchers /\ [][NextFetchers]_vars


(***************************************************************************)
(* Claims on the presentation layer.                                       *)
(***************************************************************************)
\* The keys update_crypto_index_comparison was given for an asset and an index.
CryptoIndexKeys(crypto_symbol, index_symbol) ==
    {<<"CRYPTO_DATA", crypto_symbol>>, <<"CRYPTO_DATA", IndexKey(index_symbol)>>}

\* C21: the value update_crypto_index_comparison outputs as alpha is the alpha of
\* compare_stock_to_index for the crypto series and the crypto index series it
\* compared.
C21_ShownAlphaIsIndexAlpha ==
    op = "update_crypto_index_comparison" =>
        \A c \in CryptoSymbols, i \in CryptoIndexSymbols :
            result.value.given = CryptoIndexKeys(c, i) =>
                result.value.outputs.alpha =
                    Format2(compare_stock_to_index(CRYPTO_DATA[c],
                                                   CRYPTO_DATA[IndexKey(i)]).value.alpha)


\* C22: compare_stock_to_index returns a record with the same fields for every
\* input: the fields of a returned record are exactly the fields of the record
\* returned for a degenerate input (two empty series).
C22_SameFieldsAsDegenerateResult ==
    (op = "compare_stock_to_index" /\ result.status = "returned") =>
        DOMAIN result.value = DOMAIN compare_stock_to_index(<<>>, <<>>).value


\* C29: a mock generation is reproducible within a process, also when it is
\* interleaved with another one: the frame a generation returns is the frame
\* the same generator returns for the same symbol and days when it runs alone.
C29_GenerationReproducible ==
    feed = "generators" =>
        \A t \in Threads :
            gen[t].pc = "done" =>
                gen[t].frame = MockData(gen[t].kind, gen[t].symbol, gen[t].days)


(***************************************************************************)
(* Claims on the fetching layer.                                           *)
(***************************************************************************)
PriceSources == {"get_stock_data", "get_crypto_data", "get_crypto_index_data"}

\* A price source of stock_fetcher.py or crypto_fetcher.py has handed a series.
Handing == feed = "fetchers" /\ op \in PriceSources

StrictlyAscending(df) ==
    \A i \in 1..(Len(df) - 1) : df[i].date[2] < df[i + 1].date[2]

\* C23: every series the price sources hand out, on the live path and on every
\* mock or fallback path, is ascending by date and holds no date twice.
C23_SeriesAscendingNoDateTwice ==
    Handing => StrictlyAscending(result.value)


\* A response a getter cannot take a series from: the request or the decoding
\* raised, the status was an error, the historical data is missing or empty.
Failing(response) ==
    IF response.kind = "data" THEN Len(response.items) = 0 ELSE TRUE

\* A CryptoCompare response that leaves no entry with both prices nonzero.
NothingPriced(response) ==
    IF response.kind = "data" THEN \A i \in 1..Len(response.items) : ~Priced(response.items[i])
    ELSE TRUE

LiveHanding == Handing /\ ~use_mock_data

Consumed(request) ==
    {result.responses[i][2] : i \in {j \in 1..Len(result.responses) : result.responses[j][1] = request}}

IndexRequests == {"index", "alt histoday", "top list"}

\* The mock series of the getter that ran, for the symbol and days it was called with.
MockOfCall ==
    CASE op = "get_stock_data" -> generate_mock_stock_data(result.call.symbol, result.call.days)
      [] op = "get_crypto_data" -> generate_mock_crypto_data(result.call.symbol, result.call.days)
      [] op = "get_crypto_index_data" -> generate_mock_crypto_index_data(result.call.symbol, result.call.days)

\* C24 as stated: in live mode the three getters never raise, and whenever the
\* first response they consume is a failure or carries no historical data they
\* return the mock series of the requested symbol and days.
C24_AnyFailureGivesMockSeries ==
    LiveHanding =>
        /\ result.status = "returned"
        /\ Failing(result.responses[1][2]) => result.value = MockOfCall

\* C24, amended: in live mode the three getters never raise; get_stock_data
\* and get_crypto_data return the mock series of the requested symbol and days
\* when the response fails or leaves no usable entry; get_crypto_index_data
\* returns the mock index series of the requested index and days when one of
\* its index requests raises, and the scaled BTC series of
\* get_crypto_data('BTC', days) when it reaches the proxy fallback.
C24_FallbackOfEachGetter ==
    LiveHanding =>
        /\ result.status = "returned"
        /\ (op = "get_stock_data" /\ Failing(result.responses[1][2])) =>
               result.value = generate_mock_stock_data(result.call.symbol, result.call.days)
        /\ (op = "get_crypto_data" /\ NothingPriced(result.responses[1][2])) =>
               result.value = generate_mock_crypto_data(result.call.symbol, result.call.days)
        /\ (op = "get_crypto_index_data"
               /\ \E request \in IndexRequests : \E r \in Consumed(request) : r.kind = "raises") =>
               result.value = generate_mock_crypto_index_data(result.call.symbol, result.call.days)
        /\ (op = "get_crypto_index_data" /\ Consumed("proxy") # {}) =>
               \A btc \in Consumed("proxy") :
                   result.value = ScaledProxy(get_crypto_data(FALSE, "BTC", result.call.days, btc).frame)

\* A live get_stock_data call for SPY whose request raised handed the mock
\* series of SPY.
C24_Witness_StockRequestRaised ==
    /\ LiveHanding
    /\ op = "get_stock_data"
    /\ result.call.symbol = "SPY"
    /\ result.responses[1][2].kind = "raises"
    /\ result.value = generate_mock_stock_data("SPY", result.call.days)
    /\ ~Empty(result.value)


\* A get_available_cryptos call of crypto_fetcher.py has ended.
ListingEnded ==
    feed = "fetchers" /\ op = "get_available_cryptos" /\ depth = 0 /\ result.status # "none"

\* C25: when the API raises on every request of a get_available_cryptos call,
\* the call ends by returning the predefined popular list.
C25_RaisingApiEndsWithPopularList ==
    (ListingEnded /\ ~use_mock_data /\ result.responses[1].kind \in {"raises", "status"}) =>
        (result.status = "returned" /\ result.value = popular_cryptos)


PopularSymbols == SymbolsOf(popular_cryptos)

\* The symbols the API response listed (the Names of its named entries).
ListedByApi(response) ==
    IF response.kind = "data"
    THEN {response.items[i].Name : i \in {j \in 1..Len(response.items) : Named(response.items[j])}}
    ELSE {}

NumListedByApi(response) ==
    IF response.kind = "data"
    THEN Cardinality({j \in 1..Len(response.items) : Named(response.items[j])})
    ELSE 0

\* A get_available_cryptos call has returned a list.
ListReturned == ListingEnded /\ result.status = "returned"

\* C30: a list returned by get_available_cryptos holds each of the ten popular
\* symbols; when the API answered with entries, the list is the API's entries
\* followed by popular entries, and every entry after the API's entries is a
\* popular entry whose symbol the API response did not contain.
C30_PopularAlwaysListedAppendedOnlyIfMissing ==
    ListReturned =>
        /\ PopularSymbols \subseteq SymbolsOf(result.value)
        /\ (~use_mock_data /\ result.responses[1].kind = "data") =>
               LET response == result.responses[1]
                   n == NumListedByApi(response)
               IN  /\ n <= Len(result.value)
                   /\ SymbolsOf(SubSeq(result.value, 1, n)) = ListedByApi(response)
                   /\ \A i \in (n + 1)..Len(result.value) :
                          /\ \E k \in 1..Len(popular_cryptos) : result.value[i] = popular_cryptos[k]
                          /\ result.value[i].symbol \notin ListedByApi(response)

\* The API listed BTC and LINK: the returned list starts with the API's two
\* entries and the nine other popular entries follow.
C30_Witness_ApiListedBtc ==
    /\ ListReturned
    /\ ~use_mock_data
    /\ result.responses[1].kind = "data"
    /\ ListedByApi(result.responses[1]) = {"BTC", "LINK"}
    /\ Len(result.value) = 11
    /\ result.value[1].name # "Bitcoin"
    /\ result.value[3] = popular_cryptos[2]


(***************************************************************************)
(* Claims on the caches of the presentation layer.                         *)
(***************************************************************************)
Caches ==
    [STOCK_DATA |-> STOCK_DATA, CRYPTO_DATA |-> CRYPTO_DATA, INDEX_DATA |-> INDEX_DATA]

\* The step is an invocation of the callback (a click leaves n_clicks changed).
Invoked(callback) == n_clicks' = n_clicks /\ op' = callback

CryptoIndexDropdowns == {"crypto-comparison-dropdown", "crypto-index-dropdown"}

\* C26: once the coin and the index are cached, an invocation of
\* update_crypto_index_comparison that a dropdown change triggered fetches
\* nothing and leaves the cache unchanged, also after the refresh button has
\* been clicked earlier in the session.
C26_DropdownInvocationUsesCache ==
    [][(/\ Invoked("update_crypto_index_comparison")
        /\ result'.value.trigger \in CryptoIndexDropdowns
        /\ \A g \in result'.value.given : g[2] \in DOMAIN CRYPTO_DATA)
       => (result'.value.fetched = {} /\ CRYPTO_DATA' = CRYPTO_DATA)]_vars

TriggerCallbacks ==
    {"update_stock_data", "update_crypto_data", "update_comparison_metrics",
     "update_stock_index_comparison"}

\* update_comparison_metrics ran outside the comparison tab.
Hidden(invocation) ==
    IF invocation.callback = "update_comparison_metrics"
    THEN invocation.outputs.display = "none"
    ELSE FALSE

\* C27: in update_stock_data, update_crypto_data, update_comparison_metrics
\* (on the comparison tab) and update_stock_index_comparison a series is
\* fetched for a symbol exactly when the symbol is not in the callback's cache
\* or the refresh button triggered the invocation; a symbol that is not
\* fetched keeps its cached series, no other entry changes, and afterwards the
\* cache holds an entry for every symbol given.
C27_FetchIffMissingOrRefresh ==
    [][(\E callback \in TriggerCallbacks : Invoked(callback) /\ ~Hidden(result'.value))
       => LET invocation == result'.value
          IN  /\ \A g \in invocation.given :
                     /\ (g \in invocation.fetched) <=>
                            (g[2] \notin DOMAIN Caches[g[1]]
                                \/ invocation.trigger = RefreshButton)
                     /\ g[2] \in DOMAIN Caches'[g[1]]
              /\ invocation.fetched \subseteq invocation.given
              /\ \A name \in DOMAIN Caches :
                     \A key \in DOMAIN Caches[name] :
                         <<name, key>> \notin invocation.fetched =>
                             /\ key \in DOMAIN Caches'[name]
                             /\ Caches'[name][key] = Caches[name][key]]_vars

\* After a click of the refresh button, an invocation of
\* update_stock_index_comparison that the index dropdown triggered fetched
\* nothing: both series were cached.
C27_Witness_DropdownAfterRefresh ==
    /\ feed = "dashboard"
    /\ op = "update_stock_index_comparison"
    /\ n_clicks > 0
    /\ result.value.trigger = "index-dropdown"
    /\ result.value.fetched = {}
    /\ \A g \in result.value.given : g[2] \in DOMAIN Caches[g[1]]


\* C28: a fetcher constructed with use_mock_data = True issues no HTTP request
\* from any of its public methods, in each of the fetcher modules.
C28_MockModeIssuesNoRequest ==
    (feed = "fetchers" /\ use_mock_data) => http_requests = 0

====
